---- MODULE Spec2Model ----
(***************************************************************************)
(* State-machine model of the numeric core of CPlotter                     *)
(* (src/src/qtgui/plotter.cpp): dB range setters, IIR smoothing of the     *)
(* spectrum, bin-to-pixel-column aggregation, max/min hold.                *)
(*                                                                         *)
(* Number representation.  The program computes in float/double.  Here     *)
(*   - dB values are integers (1 dB resolution);                           *)
(*   - frequencies are integers (Hz), as in the program (qint64);          *)
(*   - linear power values are non-negative integers in a fixed-point      *)
(*     unit; a float division is a floor division, a float power with      *)
(*     exponent 1/q is the integer q-th root rounded down;                 *)
(*   - geometry (x scale, fractional start bin, zoom step) is exact        *)
(*     rational arithmetic on numerator/denominator pairs, and qRound is   *)
(*     floor(v + 1/2).                                                     *)
(* m_DPR (device pixel ratio) is 1.                                        *)
(***************************************************************************)
EXTENDS Integers, Sequences, FiniteSets, TLC

VARIABLES
    p,        \* the CPlotter object: a record of its member fields
    now,      \* QDateTime::currentMSecsSinceEpoch()
    op,       \* the last operation called on the object, with its arguments
    passes,   \* the aggregating draw() passes run by the last operation
    nops      \* number of operations called so far

vars == <<p, now, op, passes, nops>>

-----------------------------------------------------------------------------
(* Program constants *)

FFT_MIN_DB == -160
FFT_MAX_DB == 30
FFT_MIN_DB_RANGE == 2
PLOTTER_UPDATE_LIMIT_MS == 16
Percent2DScreen == 35
InitSampleFreq == 96000
InitCenterFreq == 144500000
InitFftRate == 15

\* fmin of setNewFftData (1e-20) and fmin of draw (smallest positive float),
\* in fixed-point units: only their order 0 < FltMin < DataFMin is kept.
DataFMin == 2
FltMin == 1

\* a = fft_rate ^ (-1.75 * (1 - m_alpha) * 0.7).  An averaging value m_alpha
\* is represented by the integer b for which a = 1 / b at the initial FFT
\* rate: b = 1 is m_alpha = 1.0, and a = b ^ (-log(fft_rate) / log(15)).
AlphaOne == 1

PLOT_MODE_MAX == "PLOT_MODE_MAX"
PLOT_MODE_AVG == "PLOT_MODE_AVG"
PLOT_MODE_FILLED == "PLOT_MODE_FILLED"
PLOT_MODE_HISTOGRAM == "PLOT_MODE_HISTOGRAM"
PlotModes == {PLOT_MODE_MAX, PLOT_MODE_AVG, PLOT_MODE_FILLED, PLOT_MODE_HISTOGRAM}

PLOT_SCALE_DBFS == "PLOT_SCALE_DBFS"
PLOT_SCALE_DBV == "PLOT_SCALE_DBV"
PLOT_SCALE_DBMW50 == "PLOT_SCALE_DBMW50"
PlotScales == {PLOT_SCALE_DBFS, PLOT_SCALE_DBV, PLOT_SCALE_DBMW50}

WATERFALL_MODE_MAX == "WATERFALL_MODE_MAX"
WATERFALL_MODE_AVG == "WATERFALL_MODE_AVG"
WATERFALL_MODE_SYNC == "WATERFALL_MODE_SYNC"
WaterfallModes == {WATERFALL_MODE_MAX, WATERFALL_MODE_AVG, WATERFALL_MODE_SYNC}

\* a pixel of the waterfall image is a colour-table index, or one of:
Background == -1          \* black from fill() or memset()
Scaled == -2              \* a pixel of a row that resizeEvent has rescaled

\* what the conversion of a non-finite float to int can give
IntMin == -2147483647 - 1
IntMax == 2147483647
InfToInts == {IntMin, IntMax}

\* plotter.h
MAX_HISTOGRAM_SIZE == 128
\* literals of the histogram set-up of draw()
HistBinsMin == 32
HistBinsRef == 2048
HistWeightScale == 10000000

-----------------------------------------------------------------------------
(* Bounds of the model *)

MAX_SCREENSIZE == 16      \* length of the per-column buffers
NumFrames == 3            \* number of distinct input frames per frame size
InMax == 3                \* largest input sample
UnitK == 512              \* fixed-point units per unit of input power
T0 == 1000                \* clock value at construction
MaxTime == 1048           \* the clock stops here
MaxOpsSetters == 4
MaxOpsRange == 3          \* operations per behaviour, dB range specification
MaxOpsIIR == 4            \* operations per behaviour, IIR specification
MaxOpsAgg == 4            \* operations per behaviour, aggregation specification
MaxOpsHold == 4           \* operations per behaviour, hold specification
MaxOps == 2               \* operations per behaviour, all operations
MaxOpsHist == 4           \* operations per behaviour, histogram specification
MaxOpsMode == 5           \* operations per behaviour, plot mode specification
MaxNumBins == 9000        \* largest number of displayed bins, histogram size

Cols == 0 .. (MAX_SCREENSIZE - 1)
FftSizes == {8, 16}
Widths == {8, 12}
Heights == {12}
\* <<min, max>> arguments of the range setters: in range, and one for each
\* way of being out of range
DbRanges == { <<-160, 30>>, <<-80, 28>>, <<28, 30>>, <<-160, -158>>,
              <<-161, 30>>, <<31, 30>>, <<-160, 31>>, <<-160, -161>>,
              <<29, 30>>, <<28, -80>>, <<-80, -80>> }
AlphaVals == {AlphaOne, 2, 3}       \* a = 1, 1/2, 1/3 at the initial rate
FftRates == {1, InitFftRate}
CenterFreqs == {InitCenterFreq, InitCenterFreq + 1000}
ZoomSteps == {<<1, 2>>, <<11, 24>>, <<2, 1>>}     \* step = num / den
UninitVals == {0, 5}                \* content of a never-written float
UninitFloats == UninitVals \cup {-1000}   \* the same, a negative one included
DbDen == 2                          \* dB values are kept in units of 1/DbDen dB

\* constants of plotter.h, scaled down with the screen size
PEAK_WINDOW_HALF_WIDTH == 1
PEAK_UPDATE_PERIOD == 16            \* ms; not below PLOTTER_UPDATE_LIMIT_MS
PEAK_CLICK_MAX_H_DISTANCE == 2
PEAK_CLICK_MAX_V_DISTANCE == 2
MaxOpsPeaks == 5          \* operations per behaviour, peak specification
MaxOpsWf == 6             \* the same, waterfall specification
MaxOpsRows == 10          \* the same, waterfall with frames at a regular period
MaxOpsWfMode == 6         \* the same, waterfall with mode changes
MaxOpsEpoch == 4          \* the same, waterfall timing epoch
WfWidth == 8              \* widget width of the waterfall specifications
WfFftSize == 8            \* frame size of the waterfall specifications
WfSpanMs == 192           \* waterfall span set in manual mode, ms
MaxBaseline == 3          \* largest baseline of a synthetic detection source
MaxOpsColour == 2         \* the same, colour index of a waterfall value
MaxColourExp == 20        \* waterfall values run up to 2^MaxColourExp
MaxOpsCmap == 2           \* the same, colour maps
MaxRoundFreq == 12        \* roundFreq: frequencies -MaxRoundFreq .. MaxRoundFreq
MaxResolution == 6        \* roundFreq: resolutions 1 .. MaxResolution
SpikeBins == {3, 5}       \* bin holding the spike of a synthetic frame

-----------------------------------------------------------------------------
(* Arithmetic helpers *)

Min(a, b) == IF a < b THEN a ELSE b
Max(a, b) == IF a > b THEN a ELSE b
Abs(a) == IF a < 0 THEN -a ELSE a

\* qRound(n / d), d > 0: nearest integer, halves upwards
qRound(n, d) == (2 * n + d) \div (2 * d)

\* ceil(n / d), d > 0
Ceil(n, d) == -((-n) \div d)

\* a % b of C++, b > 0: the remainder has the sign of a
CMod(a, b) == IF a >= 0 THEN a % b ELSE -((-a) % b)

\* qBound(lo, v, hi)
qBound(lo, v, hi) == Max(lo, Min(hi, v))

\* <<quotient, remainder>> of a * n by d, for a, n >= 0 and d > 0, without
\* forming the product
RECURSIVE MulDivMod(_, _, _)
MulDivMod(a, n, d) ==
    IF n = 0 THEN <<0, 0>>
    ELSE LET h == MulDivMod(a, n \div 2, d)
             t == 2 * h[2] + (n % 2) * (a % d)
         IN <<2 * h[1] + (n % 2) * (a \div d) + t \div d, t % d>>

\* a * n / d of non-negative floats, truncated
MulDiv(a, n, d) == MulDivMod(a, n, d)[1]

\* a * n / d with a of either sign, truncated toward zero
SignedMulDiv(a, n, d) ==
    IF a < 0 THEN -MulDiv(-a, n, d) ELSE MulDiv(a, n, d)

\* the largest element of a non-empty set of numbers
SetMax(S) == CHOOSE m \in S : \A y \in S : y <= m

\* the element of a one-element set; { e(x) : x \in {v} } computes v once
\* however often e uses it
Only(S) == CHOOSE x \in S : TRUE

\* the sum of vec over the index set S
RECURSIVE SetSum(_, _)
SetSum(vec, S) ==
    IF S = {} THEN 0
    ELSE LET i == CHOOSE j \in S : TRUE IN vec[i] + SetSum(vec, S \ {i})

RECURSIVE Gcd(_, _)
Gcd(a, b) == IF b = 0 THEN a ELSE Gcd(b, a % b)

RECURSIVE Pow(_, _)
Pow(b, e) == IF e = 0 THEN 1 ELSE b * Pow(b, e - 1)

\* largest r in lo..hi with r^q <= n (lo^q <= n assumed)
RECURSIVE RootSearch(_, _, _, _)
RootSearch(lo, hi, n, q) ==
    IF lo >= hi THEN lo
    ELSE LET mid == (lo + hi + 1) \div 2
         IN IF Pow(mid, q) <= n THEN RootSearch(mid, hi, n, q)
            ELSE RootSearch(lo, mid - 1, n, q)

-----------------------------------------------------------------------------
(* dB range test *)

val_is_out_of_range(val, min, max) == val < min \/ val > max

\* faulty variant: the minimum-span test is missing
out_of_range_NoSpan(min, max) ==
    \/ val_is_out_of_range(min, FFT_MIN_DB, FFT_MAX_DB)
    \/ val_is_out_of_range(max, FFT_MIN_DB, FFT_MAX_DB)

out_of_range(min, max) ==
    \/ val_is_out_of_range(min, FFT_MIN_DB, FFT_MAX_DB)
    \/ val_is_out_of_range(max, FFT_MIN_DB, FFT_MAX_DB)
    \/ max < min + FFT_MIN_DB_RANGE

-----------------------------------------------------------------------------
(* Input frames, power-scale normalization, IIR *)

\* sample i of input frame number k; the frames NumFrames + c are zero but
\* for a spike in every eighth bin, starting at bin c
FrameVal(k, i) ==
    IF k <= NumFrames THEN (i * (k + 2) + k) % (InMax + 1)
    ELSE IF i % 8 = k - NumFrames THEN InMax ELSE 0

Frame(k, size) == [i \in 0 .. (size - 1) |-> FrameVal(k, i)]

\* fftData[i] * pwr_scale, floored to fmin
Normalize(x, size, scale, perHz, sampleFreq) ==
    LET num == IF scale = PLOT_SCALE_DBMW50 THEN 1000 ELSE 1
        den == IF scale = PLOT_SCALE_DBV THEN 2
               ELSE IF scale = PLOT_SCALE_DBMW50 THEN 2 * 50 ELSE 1
        v1 == (x * UnitK * num) \div (size * size * den)
        v2 == IF perHz /\ scale # PLOT_SCALE_DBFS
              THEN (v1 * size) \div sampleFreq ELSE v1
    IN Max(v2, DataFMin)

\* log(rate) / log(15), for the rates of FftRates
RateLog(rate) == IF rate = InitFftRate THEN 1 ELSE 0

\* the smoothing exponent a is 1 / SmoothRoot
SmoothRoot(rate, alpha) == Pow(alpha, RateLog(rate))

\* faulty variant: the update runs on an invalid IIR too
NeedIIR_IgnoreValid(valid, q) == q # 1

NeedIIR(valid, q) == valid /\ q # 1

\* faulty variant: additive instead of multiplicative smoothing
IirUpdate_Additive(iir, raw, q) == (iir * (q - 1) + raw) \div q

\* iir * (raw / iir) ^ (1 / q)
IirUpdate(iir, raw, q) ==
    RootSearch(Min(iir, raw), Max(iir, raw), Pow(iir, q - 1) * raw, q)

\* faulty variant: without the update the IIR keeps its old contents
UpdateIIR_NoCopy(valid, q, iir, data) ==
    IF NeedIIR(valid, q)
    THEN [ i \in DOMAIN data |-> IirUpdate(iir[i], data[i], q) ]
    ELSE iir

\* "Update IIR": the recursive update of every bin, or the copy of the frame
UpdateIIR(valid, q, iir, data) ==
    IF NeedIIR(valid, q)
    THEN [ i \in DOMAIN data |-> IirUpdate(iir[i], data[i], q) ]
    ELSE data

\* std::vector::resize: keeps the old elements, new elements are 0
ResizeVec(v, size) ==
    [i \in 0 .. (size - 1) |-> IF i \in DOMAIN v THEN v[i] ELSE 0]

-----------------------------------------------------------------------------
(* Geometry of one draw pass *)

Width(q) == q.m_Size[1]

PlotterVisible(q) == q.m_2DPixmap[1] > 0 /\ q.m_2DPixmap[2] > 0

Geo(q) ==
    LET fftSize == q.m_fftDataSize
        sf == q.m_SampleFreq
        w == Width(q)
        \* startBinD = sbN / (2 * sf)
        sbN == fftSize * (2 * q.m_FftCenter - q.m_Span + sf)
        startBin == Min(qRound(sbN, 2 * sf), fftSize - 1)
        numBins == Ceil(q.m_Span * fftSize, sf)
        endBin == startBin + numBins
        minbin == Max(startBin, 1)
        maxbin == Min(endBin + 1, fftSize - 1)
        \* xScale = xsN / xsD
        xsN == sf * w
        xsD == fftSize * q.m_Span
    IN [ w |-> w, sbN |-> sbN, sbD |-> 2 * sf,
         startBin |-> startBin, numBins |-> numBins,
         minbin |-> minbin, maxbin |-> maxbin,
         xsN |-> xsN, xsD |-> xsD,
         xmin |-> qRound((minbin - startBin) * xsN, xsD),
         xmax |-> Min(qRound((maxbin - startBin) * xsN, xsD), w) ]

Oversampled(g) == g.numBins >= g.w

\* x = qRound((i - startBin) * xScale)
BinX(g, i) == qRound((i - g.startBin) * g.xsN, g.xsD)

\* faulty variant: the bin index is truncated instead of rounded
NearestBin_Truncated(g, x) == (2 * x * g.xsD + g.w * g.sbN) \div (g.sbD * g.w)

\* j = qRound(x / xScale + startBinD)
NearestBin(g, x) == qRound(2 * x * g.xsD + g.w * g.sbN, g.sbD * g.w)

-----------------------------------------------------------------------------
(* Max / min hold *)

\* faulty variant: the max hold always follows the IIR max
PeakIsAverage_Never(mode) == FALSE

PeakIsAverage(mode) == mode = PLOT_MODE_AVG

MinIsAverage(mode) == mode # PLOT_MODE_MAX

HoldMax(valid, current, new) == IF valid THEN Max(current, new) ELSE new

HoldMin(valid, current, new) == IF valid THEN Min(current, new) ELSE new

-----------------------------------------------------------------------------
(* draw(): aggregation of the frame into the per-column buffers *)

\* the per-column buffers of object q, with the loop variables of the
\* oversampled branch; wr is the set of column indices written so far
AggStart(q, g) ==
    [ xprev |-> g.xmin, first |-> TRUE,
      vmax |-> 0, vmaxIIR |-> 0, vsum |-> 0, vsumIIR |-> 0, count |-> 0,
      m_wfMaxBuf |-> q.m_wfMaxBuf, m_wfAvgBuf |-> q.m_wfAvgBuf,
      m_fftMaxBuf |-> q.m_fftMaxBuf, m_fftAvgBuf |-> q.m_fftAvgBuf,
      m_fftMaxHoldBuf |-> q.m_fftMaxHoldBuf,
      m_fftMinHoldBuf |-> q.m_fftMinHoldBuf,
      wr |-> {} ]

\* "New (or last) pixel - output values": write column a.xprev, restart
\* the running values at bin value (v, viir) of column x
Flush(q, a, v, viir, x) ==
    LET vmax == Max(a.vmax, FltMin)
        vmaxIIR == Max(a.vmaxIIR, FltMin)
        vavg == Max(a.vsum \div a.count, FltMin)
        vavgIIR == Max(a.vsumIIR \div a.count, FltMin)
        newPeak == IF PeakIsAverage(q.m_PlotMode) THEN vavgIIR ELSE vmaxIIR
        newMin == IF MinIsAverage(q.m_PlotMode) THEN vavgIIR ELSE vmaxIIR
        c == a.xprev
    IN [ a EXCEPT
           !.m_wfMaxBuf = [@ EXCEPT ![c] = vmax],
           !.m_fftMaxBuf = [@ EXCEPT ![c] = vmaxIIR],
           !.m_wfAvgBuf = [@ EXCEPT ![c] = vavg],
           !.m_fftAvgBuf = [@ EXCEPT ![c] = vavgIIR],
           !.m_fftMaxHoldBuf =
               [@ EXCEPT ![c] = HoldMax(q.m_MaxHoldValid, @, newPeak)],
           !.m_fftMinHoldBuf =
               [@ EXCEPT ![c] = HoldMin(q.m_MinHoldValid, @, newMin)],
           !.wr = @ \cup {c},
           !.vmax = v, !.vmaxIIR = viir, !.vsum = v, !.vsumIIR = viir,
           !.count = 1, !.xprev = x ]

\* one iteration of the loop over the bins, bin i
OverStep(q, g, a, i) ==
    LET x == BinX(g, i)
        v == q.m_fftData[i]
        viir == q.m_fftIIR[i]
        a1 == IF a.first
              THEN [a EXCEPT !.vmax = v, !.vmaxIIR = viir, !.vsum = v,
                             !.vsumIIR = viir, !.count = 1]
              ELSE a
        a2 == IF x # a1.xprev \/ i = g.maxbin
              THEN Flush(q, a1, v, viir, x)
              ELSE IF ~a1.first
              THEN [a1 EXCEPT !.vmax = Max(v, @), !.vmaxIIR = Max(viir, @),
                              !.vsum = @ + v, !.vsumIIR = @ + viir,
                              !.count = @ + 1]
              ELSE a1
    IN [a2 EXCEPT !.first = FALSE]

RECURSIVE OverLoop(_, _, _, _)
OverLoop(q, g, a, i) ==
    IF i > g.maxbin THEN a ELSE OverLoop(q, g, OverStep(q, g, a, i), i + 1)

\* numBins >= w: several bins per column
AggOver(q, g) ==
    LET a == OverLoop(q, g, AggStart(q, g), g.minbin)
    IN [ q EXCEPT
           !.m_wfMaxBuf = a.m_wfMaxBuf, !.m_wfAvgBuf = a.m_wfAvgBuf,
           !.m_fftMaxBuf = a.m_fftMaxBuf, !.m_fftAvgBuf = a.m_fftAvgBuf,
           !.m_fftMaxHoldBuf = a.m_fftMaxHoldBuf,
           !.m_fftMinHoldBuf = a.m_fftMinHoldBuf,
           !.m_MaxHoldValid = TRUE,
           !.m_MinHoldValid = TRUE ]

WrittenOver(q, g) == OverLoop(q, g, AggStart(q, g), g.minbin).wr

\* numBins < w: one nearest bin per column
AggUnder(q, g) ==
    LET in(x) == x >= g.xmin /\ x < g.xmax
        v(x) == q.m_fftData[NearestBin(g, x)]
        viir(x) == q.m_fftIIR[NearestBin(g, x)]
    IN [ q EXCEPT
           !.m_wfMaxBuf = [x \in Cols |-> IF in(x) THEN v(x) ELSE @[x]],
           !.m_wfAvgBuf = [x \in Cols |-> IF in(x) THEN v(x) ELSE @[x]],
           !.m_fftMaxBuf = [x \in Cols |-> IF in(x) THEN viir(x) ELSE @[x]],
           !.m_fftAvgBuf = [x \in Cols |-> IF in(x) THEN viir(x) ELSE @[x]],
           !.m_fftMaxHoldBuf =
               [x \in Cols |-> IF in(x)
                               THEN HoldMax(q.m_MaxHoldValid, @[x], viir(x))
                               ELSE @[x]],
           !.m_fftMinHoldBuf =
               [x \in Cols |-> IF in(x)
                               THEN HoldMin(q.m_MinHoldValid, @[x], viir(x))
                               ELSE @[x]] ]

WrittenUnder(g) == {x \in Cols : x >= g.xmin /\ x < g.xmax}

Aggregate(q, g) == IF Oversampled(g) THEN AggOver(q, g) ELSE AggUnder(q, g)

Written(q, g) == IF Oversampled(g) THEN WrittenOver(q, g) ELSE WrittenUnder(g)

-----------------------------------------------------------------------------
(* draw(): histogram *)

\* faulty variant: no lower limit on the number of bins
HistBinsDisplayed_NoFloor(numBins) ==
    Min(MAX_HISTOGRAM_SIZE, qRound(HistBinsMin * numBins, HistBinsRef))

\* histBinsDisplayed
HistBinsDisplayed(numBins) ==
    Min(MAX_HISTOGRAM_SIZE,
        Max(HistBinsMin, qRound(HistBinsMin * numBins, HistBinsRef)))

\* histWeight, in fixed-point units
HistWeight(q, H) == HistWeightScale \div (q.fft_rate * H * q.m_fftDataSize)

RECURSIVE Log2Floor(_)
Log2Floor(v) == IF v < 2 THEN 0 ELSE 1 + Log2Floor(v \div 2)

\* 10 * log10f(v) in units of 1/DbDen dB, for v > 0: 3 dB per octave, linear
\* within an octave, rounded down
PowerDb(v) ==
    LET k == Log2Floor(v)
    IN 3 * DbDen * (k - Log2Floor(UnitK))
         + (3 * DbDen * (v - Pow(2, k))) \div Pow(2, k)

\* the vertical position of sample value v: binD = bn / bd, the two bins and
\* the numerator of wgtV = vN / (2 * bd)
HistBin(q, H, v) ==
    LET bd == Abs(q.m_PandMaxdB - q.m_PandMindB) * DbDen
        bn == H * (q.m_PandMaxdB * DbDen - PowerDb(v))
        binLow == Min(Max((2 * bn - bd) \div (2 * bd), 0), H - 1)
    IN [ in |-> v > 0 /\ bn > 0 /\ bn < H * bd,
         bd |-> bd, binLow |-> binLow, binHigh |-> Min(binLow + 1, H - 1),
         vN |-> bn - binLow * bd ]

\* xScale in lowest terms
HistXDen(g) == g.xsD \div Gcd(g.xsN, g.xsD)

HistXNum(g) == g.xsN \div Gcd(g.xsN, g.xsD)

\* faulty variant: the horizontal weight is not halved
OverAdds_FullWeight(q, g, H, i) ==
    LET b == HistBin(q, H, q.m_fftData[i])
        xd == HistXDen(g)
        xn == (i - g.startBin) * HistXNum(g)
        binLeft == Max((2 * xn - xd) \div (2 * xd), 0)
        binRight == Min(binLeft + 1, g.numBins - 1)
        hN == 2 * (xn - binLeft * xd)
    IN IF ~b.in THEN <<>>
       ELSE << [x |-> binLeft, y |-> b.binLow,
                w |-> (2 * b.bd - b.vN) * (2 * xd - hN)],
               [x |-> binLeft, y |-> b.binHigh, w |-> b.vN * (2 * xd - hN)],
               [x |-> binRight, y |-> b.binLow, w |-> (2 * b.bd - b.vN) * hN],
               [x |-> binRight, y |-> b.binHigh, w |-> b.vN * hN] >>

\* the four additions to m_histogram made for bin i in the oversampled loop;
\* weights are in units of histWeight / (4 * xd * bd), wgtH = hN / (2 * xd)
OverAdds(q, g, H, i) ==
    LET b == HistBin(q, H, q.m_fftData[i])
        xd == HistXDen(g)
        xn == (i - g.startBin) * HistXNum(g)
        binLeft == Max((2 * xn - xd) \div (2 * xd), 0)
        binRight == Min(binLeft + 1, g.numBins - 1)
        hN == xn - binLeft * xd
    IN IF ~b.in THEN <<>>
       ELSE << [x |-> binLeft, y |-> b.binLow,
                w |-> (2 * b.bd - b.vN) * (2 * xd - hN)],
               [x |-> binLeft, y |-> b.binHigh, w |-> b.vN * (2 * xd - hN)],
               [x |-> binRight, y |-> b.binLow, w |-> (2 * b.bd - b.vN) * hN],
               [x |-> binRight, y |-> b.binHigh, w |-> b.vN * hN] >>

\* the two additions made for column x in the undersampled loop; weights are
\* in units of histWeight / (4 * bd)
UnderAdds(q, g, H, x) ==
    LET b == HistBin(q, H, q.m_fftData[NearestBin(g, x)])
    IN IF ~b.in THEN <<>>
       ELSE << [x |-> x, y |-> b.binLow, w |-> 2 * (2 * b.bd - b.vN)],
               [x |-> x, y |-> b.binHigh, w |-> 2 * b.vN] >>

RECURSIVE HistAddsOver(_, _, _, _)
HistAddsOver(q, g, H, i) ==
    IF i > g.maxbin THEN <<>>
    ELSE OverAdds(q, g, H, i) \o HistAddsOver(q, g, H, i + 1)

RECURSIVE HistAddsUnder(_, _, _, _)
HistAddsUnder(q, g, H, x) ==
    IF x >= g.xmax THEN <<>>
    ELSE UnderAdds(q, g, H, x) \o HistAddsUnder(q, g, H, x + 1)

\* all additions of one pass, in program order
HistAdds(q, g) ==
    IF Oversampled(g)
    THEN HistAddsOver(q, g, HistBinsDisplayed(g.numBins), g.minbin)
    ELSE HistAddsUnder(q, g, HistBinsDisplayed(g.numBins), g.xmin)

\* the unit of the weights of one pass is histWeight / HistDen
HistDen(q, g) ==
    4 * (IF Oversampled(g) THEN HistXDen(g) ELSE 1)
      * Abs(q.m_PandMaxdB - q.m_PandMindB) * DbDen

RECURSIVE SumAdds(_, _, _)
SumAdds(adds, c, n) ==
    IF n = 0 THEN 0
    ELSE (IF <<adds[n].x, adds[n].y>> = c THEN adds[n].w ELSE 0)
           + SumAdds(adds, c, n - 1)

\* m_histogram after memset and the additions: the cells never added to
\* are zero and are left out
HistGrid(adds) ==
    [ c \in {<<adds[n].x, adds[n].y>> : n \in DOMAIN adds} |->
        SumAdds(adds, c, Len(adds)) ]

\* "Initialize results" and the histogram part of the two loops
Histogram(q0, g, doHistogram) ==
    IF doHistogram
    THEN Only({ [q EXCEPT !.m_histogram = [ den |-> HistDen(q, g),
                                            w |-> HistGrid(HistAdds(q, g)) ]]
                  : q \in {q0} })
    ELSE q0

\* (1 - m_alpha) ^ (4 / fft_rate) as <<numerator, denominator>>, rounded
HistKeep(alpha, rate) ==
    IF alpha = AlphaOne THEN <<0, 1>>
    ELSE IF RateLog(rate) = 1 THEN <<alpha, alpha + 1>>
    ELSE <<1, 128>>

-----------------------------------------------------------------------------
(* draw(): waterfall *)

clearWaterfallBuf(q) == [q EXCEPT !.m_wfbuf = [x \in Cols |-> 0]]

WaterfallIsNull(q) == q.m_WaterfallImage[1] = 0 \/ q.m_WaterfallImage[2] = 0

\* faulty variant: every draw of a running plotter updates the waterfall
DoWaterfall_AnyDraw(q, newData) == ~WaterfallIsNull(q) /\ q.m_Running

DoWaterfall(q, newData) == ~WaterfallIsNull(q) /\ q.m_Running /\ newData

\* dataSource
WfSource(q) ==
    IF q.m_WaterfallMode = WATERFALL_MODE_AVG THEN q.m_wfAvgBuf
    ELSE IF q.m_WaterfallMode = WATERFALL_MODE_SYNC
    THEN IF q.m_PlotMode = PLOT_MODE_MAX THEN q.m_fftMaxBuf ELSE q.m_fftAvgBuf
    ELSE q.m_wfMaxBuf

\* not in "auto" mode
ManualSpan(q) == q.msec_per_wfline[1] > 0

\* "store max waterfall data in accumulator": entries 0 .. npts - 1
WfAccumulate(q, g) ==
    IF q.m_WaterfallMode # WATERFALL_MODE_MAX
    THEN [ q EXCEPT !.wf_avg_count = @ + 1,
                    !.m_wfbuf = [ i \in Cols |->
                                    IF i < g.xmax - g.xmin
                                    THEN @[i] + WfSource(q)[i] ELSE @[i] ] ]
    ELSE [ q EXCEPT !.m_wfbuf = [ i \in Cols |->
                                    IF i < g.xmax - g.xmin
                                    THEN Max(@[i], WfSource(q)[i])
                                    ELSE @[i] ] ]

\* faulty variant: a row is due at every frame
RowDue_Always(q) == TRUE

\* "is it time to update waterfall?": tnow_ms - wf_epoch > wf_count *
\* msec_per_wfline
RowDue(q) ==
    (now - q.wf_epoch) * q.msec_per_wfline[2] > q.wf_count * q.msec_per_wfline[1]

\* waterfall values: zero power, the powers of two and the values halfway
\* between two of them
ColourVals ==
    {0} \cup {Pow(2, k) : k \in 0 .. MaxColourExp}
        \cup {3 * Pow(2, k) : k \in 0 .. (MaxColourExp - 2)}

\* 255 - cidx for the value v; log10f of a value that is not positive is
\* not finite, and what qRound makes of it is left to the build
WfColorIndex(q, v) ==
    LET cidx == IF v <= 0 THEN q.infToInt
                ELSE qRound(256 * (q.m_WfMaxdB * DbDen - PowerDb(v)),
                            Abs(q.m_WfMaxdB - q.m_WfMindB) * DbDen)
    IN 255 - Max(Min(cidx, 255), 0)

\* the value of column ix that the new row shows
WfLineValue(q, ix) ==
    IF ManualSpan(q)
    THEN IF q.m_WaterfallMode # WATERFALL_MODE_MAX
         THEN q.m_wfbuf[ix] \div q.wf_avg_count
         ELSE q.m_wfbuf[ix]
    ELSE WfSource(q)[ix]

\* faulty variant: the new row overwrites row 0, nothing moves down
WfShift_InPlace(rows, row) == <<row>> \o Tail(rows)

\* memmove of the rows 0 .. height - 2 to 1 .. height - 1, then the new row 0
WfShift(rows, row) == <<row>> \o SubSeq(rows, 1, Len(rows) - 1)

\* one row of the waterfall is emitted
WfEmit(q, g) ==
    LET row == [ x \in 0 .. (q.m_WaterfallImage[1] - 1) |->
                   IF g.xmin <= x /\ x < g.xmax
                   THEN WfColorIndex(q, WfLineValue(q, x))
                   ELSE Background ]
        q1 == [ q EXCEPT !.wf_count = @ + 1,
                         !.tlast_wf_ms = now,
                         !.wf_valid_since_ms = IF @ = 0 THEN now ELSE @,
                         !.tlast_wf_drawn_ms = now,
                         !.m_WaterfallRows = WfShift(@, row),
                         !.wf_avg_count = 0 ]
    IN IF ManualSpan(q) THEN clearWaterfallBuf(q1) ELSE q1

WaterfallPass(q, g) ==
    Only({ IF RowDue(a) THEN WfEmit(a, g) ELSE a
             : a \in {IF ManualSpan(q) THEN WfAccumulate(q, g) ELSE q} })

Waterfall(q0, g, doWaterfall) ==
    IF doWaterfall
    THEN Only({ WaterfallPass(q, gg) : q \in {q0}, gg \in {g} })
    ELSE q0

-----------------------------------------------------------------------------
(* draw(): peak detection *)

\* _detectSource
PeakSource(q) ==
    IF q.m_MaxHoldActive THEN q.m_fftMaxHoldBuf
    ELSE IF q.m_PlotMode = PLOT_MODE_AVG THEN q.m_fftAvgBuf
    ELSE q.m_fftMaxBuf

\* the y coordinate of a peak of value v, in whole pixels
PeakY(q, v) ==
    LET plotHeight == q.m_2DPixmap[2]
        R == Abs(q.m_PandMaxdB - q.m_PandMindB) * DbDen
    IN IF v <= 0 THEN plotHeight
       ELSE qBound(0, (plotHeight * (q.m_PandMaxdB * DbDen - PowerDb(v)))
                        \div R, plotHeight)

SetMin(S) == CHOOSE m \in S : \A y \in S : m <= y

\* the test "vi == maxV && vi > 2 * avgV && vi > 4 * minV" on the window of
\* half width hw around ix, avgV being the sum divided by div
IsPeak(buf, ix, hw, div) ==
    LET win == (ix - hw) .. (ix + hw)
        vi == buf[ix]
        maxV == SetMax({0} \cup {buf[x] : x \in win})
        minV == SetMin({buf[x] : x \in win})
    IN vi = maxV /\ vi * div > 2 * SetSum(buf, win) /\ vi > 4 * minV

\* "Narrow peaks": the columns tested and the columns found
NarrowCols(xmin, npts) ==
    (xmin + PEAK_WINDOW_HALF_WIDTH) .. (xmin + npts - PEAK_WINDOW_HALF_WIDTH - 1)

NarrowPeaks(src, xmin, npts) ==
    { ix \in NarrowCols(xmin, npts) :
        IsPeak(src, ix, PEAK_WINDOW_HALF_WIDTH, 2 * PEAK_WINDOW_HALF_WIDTH + 1) }

\* m_peakSmoothBuf after the first loop, in units of 1 / (2 * pw + 1): the
\* window sums
SmoothBuf(old, src, xmin, npts) ==
    [ x \in DOMAIN old |->
        IF x \in NarrowCols(xmin, npts)
        THEN SetSum(src, (x - PEAK_WINDOW_HALF_WIDTH)
                           .. (x + PEAK_WINDOW_HALF_WIDTH))
        ELSE old[x] ]

\* faulty variant: a wide peak is added next to another peak too
WideLoop_NoNearTest(q, smooth, peaks, i, xmin, npts) ==
    LET pw2 == PEAK_WINDOW_HALF_WIDTH * 5
        cand == { ix \in (xmin + pw2) .. (xmin + npts - pw2 - 1) :
                    IsPeak(smooth, ix, pw2, 2 * pw2) }
    IN [ x \in DOMAIN peaks \cup cand |->
           IF x \in DOMAIN peaks THEN peaks[x]
           ELSE PeakY(q, smooth[x] \div (2 * PEAK_WINDOW_HALF_WIDTH + 1)) ]

\* "Use the smoothed curve to find wider peaks": loop from i on; avgV is
\* the sum divided by pw2 * 2
RECURSIVE WideLoop(_, _, _, _, _, _)
WideLoop(q, smooth, peaks, i, xmin, npts) ==
    LET pw == PEAK_WINDOW_HALF_WIDTH
        pw2 == pw * 5
        ix == i + xmin
        found == \E j \in (-pw) .. pw : (ix + j) \in DOMAIN peaks
        y == PeakY(q, smooth[ix] \div (2 * pw + 1))
        next == IF IsPeak(smooth, ix, pw2, 2 * pw2) /\ ~found
                THEN [x \in DOMAIN peaks \cup {ix} |->
                         IF x = ix THEN y ELSE peaks[x]]
                ELSE peaks
    IN IF i >= npts - pw2 THEN peaks
       ELSE WideLoop(q, smooth, next, i + 1, xmin, npts)

\* m_Peaks.clear() and the two detection loops over the source src
DetectPeaks(q, src, xmin, npts) ==
    LET smooth == SmoothBuf(q.m_peakSmoothBuf, src, xmin, npts)
        narrow == [ix \in NarrowPeaks(src, xmin, npts) |-> PeakY(q, src[ix])]
    IN [ m_peakSmoothBuf |-> smooth,
         m_Peaks |-> WideLoop(q, smooth, narrow, PEAK_WINDOW_HALF_WIDTH * 5,
                              xmin, npts) ]

\* faulty variant: the detection runs in every plotted pass
PeaksDue_Always(q) == TRUE

\* "Run peak detection periodically. If overlay will be redrawn, run ..."
PeaksDue(q) == now > q.tlast_peaks_ms + PEAK_UPDATE_PERIOD \/ q.m_DrawOverlay

\* "Peak detection"
PeakDetection(q, g) ==
    LET det == DetectPeaks(q, PeakSource(q), g.xmin, g.xmax - g.xmin)
    IN IF q.m_PeakDetectActive /\ PeaksDue(q)
       THEN [ q EXCEPT !.tlast_peaks_ms = now,
                       !.m_Peaks = det.m_Peaks,
                       !.m_peakSmoothBuf = det.m_peakSmoothBuf ]
       ELSE q

-----------------------------------------------------------------------------
(* draw(): the rest of the pass *)

DrawPlotter(q) ==
    PlotterVisible(q) /\ now >= q.tlast_plot_drawn_ms + PLOTTER_UPDATE_LIMIT_MS

DoHistogram(q, newData) ==
    /\ PlotterVisible(q)
    /\ q.m_PlotMode = PLOT_MODE_HISTOGRAM
    /\ (~q.m_histIIRValid \/ newData)

\* "Update histogram IIR if it will be used."
HistogramPass(q, g) ==
    LET H == HistBinsDisplayed(g.numBins)
        keep == HistKeep(q.m_alpha, q.fft_rate)
        histNew(c) == IF c \in DOMAIN q.m_histogram.w
                      THEN MulDiv(q.m_histogram.w[c], HistWeight(q, H),
                                  q.m_histogram.den)
                      ELSE 0
        histPrev(c) == IF c \in DOMAIN q.m_histIIR.w
                       THEN q.m_histIIR.w[c] ELSE q.m_histIIR.uninit
        histV(c) == IF ~q.m_histIIRValid THEN histNew(c)
                    ELSE histNew(c) + (histPrev(c) * keep[1]) \div keep[2]
        cells == (g.xmin .. (g.xmax - 1)) \X (0 .. (H - 1))
        histMax == SetMax({0} \cup {histV(c) : c \in cells})
        histMaxAlpha == Min(5, q.fft_rate)
    IN [ q EXCEPT
           !.m_histIIR.w = [ c \in DOMAIN @ \cup cells |->
                               IF c \in cells THEN Max(histV(c), 0)
                               ELSE @[c] ],
           !.m_histIIRValid = TRUE,
           !.m_histMaxIIR =
               (@ * (q.fft_rate - histMaxAlpha) + histMax * histMaxAlpha)
                 \div q.fft_rate ]

HistogramIIR(q0, g, doHistogram) ==
    IF doHistogram
    THEN Only({ HistogramPass(q, gg) : q \in {q0}, gg \in {g} })
    ELSE q0

\* "get/draw the 2D spectrum"
Plot2D(q0, drawPlotter) ==
    IF drawPlotter
    THEN Only({ [ PeakDetection(q, Geo(q)) EXCEPT
                    !.tlast_plot_drawn_ms = now,
                    !.m_MaxHoldValid = IF q.m_MaxHoldActive THEN TRUE ELSE @,
                    !.m_MinHoldValid = IF q.m_MinHoldActive THEN TRUE ELSE @,
                    !.m_DrawOverlay = FALSE ] : q \in {q0} })
    ELSE q0

\* faulty variant: a closed gate skips the whole pass
draw_GatedNumerics(q, newData) ==
    IF q.m_fftDataSize = 0
    THEN IF PlotterVisible(q) THEN [q EXCEPT !.m_DrawOverlay = FALSE] ELSE q
    ELSE IF PlotterVisible(q) /\ ~DrawPlotter(q) THEN q
    ELSE Plot2D(HistogramIIR(Waterfall(Histogram(Aggregate(q, Geo(q)), Geo(q),
                                                 DoHistogram(q, newData)),
                                       Geo(q), DoWaterfall(q, newData)),
                             Geo(q), DoHistogram(q, newData)),
                DrawPlotter(q))

\* draw(newData) on object q: the object after the pass
draw(q, newData) ==
    IF q.m_fftDataSize = 0
    THEN IF PlotterVisible(q) THEN [q EXCEPT !.m_DrawOverlay = FALSE] ELSE q
    ELSE Plot2D(HistogramIIR(Waterfall(Histogram(Aggregate(q, Geo(q)), Geo(q),
                                                 DoHistogram(q, newData)),
                                       Geo(q), DoWaterfall(q, newData)),
                             Geo(q), DoHistogram(q, newData)),
                DrawPlotter(q))

\* A run is the object with the passes made so far by the current operation.
\* A pass is recorded when it aggregates (frame size > 0).
Run(q) == [o |-> q, tr |-> <<>>]

DrawPass(r, newData, post) ==
    LET q == r.o
    IN [ o |-> post,
         tr |-> IF q.m_fftDataSize = 0 THEN r.tr
                ELSE Append(r.tr, [ newData |-> newData, pre |-> q,
                                    post |-> post,
                                    wr |-> Written(q, Geo(q)) ]) ]

DrawT(r0, newData) ==
    Only({ Only({ DrawPass(r, newData, post) : post \in {draw(r.o, newData)} })
             : r \in {r0} })

\* updateOverlay()
updateOverlay(r) == DrawT([r EXCEPT !.o.m_DrawOverlay = TRUE], FALSE)

-----------------------------------------------------------------------------
(* Waterfall colour maps *)

ColourUnit == 100000000   \* the float tables are kept in units of 1 / ColourUnit

\* turbo[256][3]
turbo ==
  <<
    <<48, 18, 59>>, <<50, 21, 67>>, <<51, 24, 74>>, <<52, 27, 81>>,
    <<53, 30, 88>>, <<54, 33, 95>>, <<55, 36, 102>>, <<56, 39, 109>>,
    <<57, 42, 115>>, <<58, 45, 121>>, <<59, 47, 128>>, <<60, 50, 134>>,
    <<61, 53, 139>>, <<62, 56, 145>>, <<63, 59, 151>>, <<63, 62, 156>>,
    <<64, 64, 162>>, <<65, 67, 167>>, <<65, 70, 172>>, <<66, 73, 177>>,
    <<66, 75, 181>>, <<67, 78, 186>>, <<68, 81, 191>>, <<68, 84, 195>>,
    <<68, 86, 199>>, <<69, 89, 203>>, <<69, 92, 207>>, <<69, 94, 211>>,
    <<70, 97, 214>>, <<70, 100, 218>>, <<70, 102, 221>>, <<70, 105, 224>>,
    <<70, 107, 227>>, <<71, 110, 230>>, <<71, 113, 233>>, <<71, 115, 235>>,
    <<71, 118, 238>>, <<71, 120, 240>>, <<71, 123, 242>>, <<70, 125, 244>>,
    <<70, 128, 246>>, <<70, 130, 248>>, <<70, 133, 250>>, <<70, 135, 251>>,
    <<69, 138, 252>>, <<69, 140, 253>>, <<68, 143, 254>>, <<67, 145, 254>>,
    <<66, 148, 255>>, <<65, 150, 255>>, <<64, 153, 255>>, <<62, 155, 254>>,
    <<61, 158, 254>>, <<59, 160, 253>>, <<58, 163, 252>>, <<56, 165, 251>>,
    <<55, 168, 250>>, <<53, 171, 248>>, <<51, 173, 247>>, <<49, 175, 245>>,
    <<47, 178, 244>>, <<46, 180, 242>>, <<44, 183, 240>>, <<42, 185, 238>>,
    <<40, 188, 235>>, <<39, 190, 233>>, <<37, 192, 231>>, <<35, 195, 228>>,
    <<34, 197, 226>>, <<32, 199, 223>>, <<31, 201, 221>>, <<30, 203, 218>>,
    <<28, 205, 216>>, <<27, 208, 213>>, <<26, 210, 210>>, <<26, 212, 208>>,
    <<25, 213, 205>>, <<24, 215, 202>>, <<24, 217, 200>>, <<24, 219, 197>>,
    <<24, 221, 194>>, <<24, 222, 192>>, <<24, 224, 189>>, <<25, 226, 187>>,
    <<25, 227, 185>>, <<26, 228, 182>>, <<28, 230, 180>>, <<29, 231, 178>>,
    <<31, 233, 175>>, <<32, 234, 172>>, <<34, 235, 170>>, <<37, 236, 167>>,
    <<39, 238, 164>>, <<42, 239, 161>>, <<44, 240, 158>>, <<47, 241, 155>>,
    <<50, 242, 152>>, <<53, 243, 148>>, <<56, 244, 145>>, <<60, 245, 142>>,
    <<63, 246, 138>>, <<67, 247, 135>>, <<70, 248, 132>>, <<74, 248, 128>>,
    <<78, 249, 125>>, <<82, 250, 122>>, <<85, 250, 118>>, <<89, 251, 115>>,
    <<93, 252, 111>>, <<97, 252, 108>>, <<101, 253, 105>>, <<105, 253, 102>>,
    <<109, 254, 98>>, <<113, 254, 95>>, <<117, 254, 92>>, <<121, 254, 89>>,
    <<125, 255, 86>>, <<128, 255, 83>>, <<132, 255, 81>>, <<136, 255, 78>>,
    <<139, 255, 75>>, <<143, 255, 73>>, <<146, 255, 71>>, <<150, 254, 68>>,
    <<153, 254, 66>>, <<156, 254, 64>>, <<159, 253, 63>>, <<161, 253, 61>>,
    <<164, 252, 60>>, <<167, 252, 58>>, <<169, 251, 57>>, <<172, 251, 56>>,
    <<175, 250, 55>>, <<177, 249, 54>>, <<180, 248, 54>>, <<183, 247, 53>>,
    <<185, 246, 53>>, <<188, 245, 52>>, <<190, 244, 52>>, <<193, 243, 52>>,
    <<195, 241, 52>>, <<198, 240, 52>>, <<200, 239, 52>>, <<203, 237, 52>>,
    <<205, 236, 52>>, <<208, 234, 52>>, <<210, 233, 53>>, <<212, 231, 53>>,
    <<215, 229, 53>>, <<217, 228, 54>>, <<219, 226, 54>>, <<221, 224, 55>>,
    <<223, 223, 55>>, <<225, 221, 55>>, <<227, 219, 56>>, <<229, 217, 56>>,
    <<231, 215, 57>>, <<233, 213, 57>>, <<235, 211, 57>>, <<236, 209, 58>>,
    <<238, 207, 58>>, <<239, 205, 58>>, <<241, 203, 58>>, <<242, 201, 58>>,
    <<244, 199, 58>>, <<245, 197, 58>>, <<246, 195, 58>>, <<247, 193, 58>>,
    <<248, 190, 57>>, <<249, 188, 57>>, <<250, 186, 57>>, <<251, 184, 56>>,
    <<251, 182, 55>>, <<252, 179, 54>>, <<252, 177, 54>>, <<253, 174, 53>>,
    <<253, 172, 52>>, <<254, 169, 51>>, <<254, 167, 50>>, <<254, 164, 49>>,
    <<254, 161, 48>>, <<254, 158, 47>>, <<254, 155, 45>>, <<254, 153, 44>>,
    <<254, 150, 43>>, <<254, 147, 42>>, <<254, 144, 41>>, <<253, 141, 39>>,
    <<253, 138, 38>>, <<252, 135, 37>>, <<252, 132, 35>>, <<251, 129, 34>>,
    <<251, 126, 33>>, <<250, 123, 31>>, <<249, 120, 30>>, <<249, 117, 29>>,
    <<248, 114, 28>>, <<247, 111, 26>>, <<246, 108, 25>>, <<245, 105, 24>>,
    <<244, 102, 23>>, <<243, 99, 21>>, <<242, 96, 20>>, <<241, 93, 19>>,
    <<240, 91, 18>>, <<239, 88, 17>>, <<237, 85, 16>>, <<236, 83, 15>>,
    <<235, 80, 14>>, <<234, 78, 13>>, <<232, 75, 12>>, <<231, 73, 12>>,
    <<229, 71, 11>>, <<228, 69, 10>>, <<226, 67, 10>>, <<225, 65, 9>>,
    <<223, 63, 8>>, <<221, 61, 8>>, <<220, 59, 7>>, <<218, 57, 7>>,
    <<216, 55, 6>>, <<214, 53, 6>>, <<212, 51, 5>>, <<210, 49, 5>>,
    <<208, 47, 5>>, <<206, 45, 4>>, <<204, 43, 4>>, <<202, 42, 4>>,
    <<200, 40, 3>>, <<197, 38, 3>>, <<195, 37, 3>>, <<193, 35, 2>>,
    <<190, 33, 2>>, <<188, 32, 2>>, <<185, 30, 2>>, <<183, 29, 2>>,
    <<180, 27, 1>>, <<178, 26, 1>>, <<175, 24, 1>>, <<172, 23, 1>>,
    <<169, 22, 1>>, <<167, 20, 1>>, <<164, 19, 1>>, <<161, 18, 1>>,
    <<158, 16, 1>>, <<155, 15, 1>>, <<152, 14, 1>>, <<149, 13, 1>>,
    <<146, 11, 1>>, <<142, 10, 1>>, <<139, 9, 2>>, <<136, 8, 2>>,
    <<133, 7, 2>>, <<129, 6, 2>>, <<126, 5, 2>>, <<122, 4, 3>>
  >>

\* plasma[256][3]
plasma ==
  <<
    <<12, 7, 134>>, <<16, 7, 135>>, <<19, 6, 137>>, <<21, 6, 138>>,
    <<24, 6, 139>>, <<27, 6, 140>>, <<29, 6, 141>>, <<31, 5, 142>>,
    <<33, 5, 143>>, <<35, 5, 144>>, <<37, 5, 145>>, <<39, 5, 146>>,
    <<41, 5, 147>>, <<43, 5, 148>>, <<45, 4, 148>>, <<47, 4, 149>>,
    <<49, 4, 150>>, <<51, 4, 151>>, <<52, 4, 152>>, <<54, 4, 152>>,
    <<56, 4, 153>>, <<58, 4, 154>>, <<59, 3, 154>>, <<61, 3, 155>>,
    <<63, 3, 156>>, <<64, 3, 156>>, <<66, 3, 157>>, <<68, 3, 158>>,
    <<69, 3, 158>>, <<71, 2, 159>>, <<73, 2, 159>>, <<74, 2, 160>>,
    <<76, 2, 161>>, <<78, 2, 161>>, <<79, 2, 162>>, <<81, 1, 162>>,
    <<82, 1, 163>>, <<84, 1, 163>>, <<86, 1, 163>>, <<87, 1, 164>>,
    <<89, 1, 164>>, <<90, 0, 165>>, <<92, 0, 165>>, <<94, 0, 165>>,
    <<95, 0, 166>>, <<97, 0, 166>>, <<98, 0, 166>>, <<100, 0, 167>>,
    <<101, 0, 167>>, <<103, 0, 167>>, <<104, 0, 167>>, <<106, 0, 167>>,
    <<108, 0, 168>>, <<109, 0, 168>>, <<111, 0, 168>>, <<112, 0, 168>>,
    <<114, 0, 168>>, <<115, 0, 168>>, <<117, 0, 168>>, <<118, 1, 168>>,
    <<120, 1, 168>>, <<121, 1, 168>>, <<123, 2, 168>>, <<124, 2, 167>>,
    <<126, 3, 167>>, <<127, 3, 167>>, <<129, 4, 167>>, <<130, 4, 167>>,
    <<132, 5, 166>>, <<133, 6, 166>>, <<134, 7, 166>>, <<136, 7, 165>>,
    <<137, 8, 165>>, <<139, 9, 164>>, <<140, 10, 164>>, <<142, 12, 164>>,
    <<143, 13, 163>>, <<144, 14, 163>>, <<146, 15, 162>>, <<147, 16, 161>>,
    <<149, 17, 161>>, <<150, 18, 160>>, <<151, 19, 160>>, <<153, 20, 159>>,
    <<154, 21, 158>>, <<155, 23, 158>>, <<157, 24, 157>>, <<158, 25, 156>>,
    <<159, 26, 155>>, <<160, 27, 155>>, <<162, 28, 154>>, <<163, 29, 153>>,
    <<164, 30, 152>>, <<165, 31, 151>>, <<167, 33, 151>>, <<168, 34, 150>>,
    <<169, 35, 149>>, <<170, 36, 148>>, <<172, 37, 147>>, <<173, 38, 146>>,
    <<174, 39, 145>>, <<175, 40, 144>>, <<176, 42, 143>>, <<177, 43, 143>>,
    <<178, 44, 142>>, <<180, 45, 141>>, <<181, 46, 140>>, <<182, 47, 139>>,
    <<183, 48, 138>>, <<184, 50, 137>>, <<185, 51, 136>>, <<186, 52, 135>>,
    <<187, 53, 134>>, <<188, 54, 133>>, <<189, 55, 132>>, <<190, 56, 131>>,
    <<191, 57, 130>>, <<192, 59, 129>>, <<193, 60, 128>>, <<194, 61, 128>>,
    <<195, 62, 127>>, <<196, 63, 126>>, <<197, 64, 125>>, <<198, 65, 124>>,
    <<199, 66, 123>>, <<200, 68, 122>>, <<201, 69, 121>>, <<202, 70, 120>>,
    <<203, 71, 119>>, <<204, 72, 118>>, <<205, 73, 117>>, <<206, 74, 117>>,
    <<207, 75, 116>>, <<208, 77, 115>>, <<209, 78, 114>>, <<209, 79, 113>>,
    <<210, 80, 112>>, <<211, 81, 111>>, <<212, 82, 110>>, <<213, 83, 109>>,
    <<214, 85, 109>>, <<215, 86, 108>>, <<215, 87, 107>>, <<216, 88, 106>>,
    <<217, 89, 105>>, <<218, 90, 104>>, <<219, 91, 103>>, <<220, 93, 102>>,
    <<220, 94, 102>>, <<221, 95, 101>>, <<222, 96, 100>>, <<223, 97, 99>>,
    <<223, 98, 98>>, <<224, 100, 97>>, <<225, 101, 96>>, <<226, 102, 96>>,
    <<227, 103, 95>>, <<227, 104, 94>>, <<228, 106, 93>>, <<229, 107, 92>>,
    <<229, 108, 91>>, <<230, 109, 90>>, <<231, 110, 90>>, <<232, 112, 89>>,
    <<232, 113, 88>>, <<233, 114, 87>>, <<234, 115, 86>>, <<234, 116, 85>>,
    <<235, 118, 84>>, <<236, 119, 84>>, <<236, 120, 83>>, <<237, 121, 82>>,
    <<237, 123, 81>>, <<238, 124, 80>>, <<239, 125, 79>>, <<239, 126, 78>>,
    <<240, 128, 77>>, <<240, 129, 77>>, <<241, 130, 76>>, <<242, 132, 75>>,
    <<242, 133, 74>>, <<243, 134, 73>>, <<243, 135, 72>>, <<244, 137, 71>>,
    <<244, 138, 71>>, <<245, 139, 70>>, <<245, 141, 69>>, <<246, 142, 68>>,
    <<246, 143, 67>>, <<246, 145, 66>>, <<247, 146, 65>>, <<247, 147, 65>>,
    <<248, 149, 64>>, <<248, 150, 63>>, <<248, 152, 62>>, <<249, 153, 61>>,
    <<249, 154, 60>>, <<250, 156, 59>>, <<250, 157, 58>>, <<250, 159, 58>>,
    <<250, 160, 57>>, <<251, 162, 56>>, <<251, 163, 55>>, <<251, 164, 54>>,
    <<252, 166, 53>>, <<252, 167, 53>>, <<252, 169, 52>>, <<252, 170, 51>>,
    <<252, 172, 50>>, <<252, 173, 49>>, <<253, 175, 49>>, <<253, 176, 48>>,
    <<253, 178, 47>>, <<253, 179, 46>>, <<253, 181, 45>>, <<253, 182, 45>>,
    <<253, 184, 44>>, <<253, 185, 43>>, <<253, 187, 43>>, <<253, 188, 42>>,
    <<253, 190, 41>>, <<253, 192, 41>>, <<253, 193, 40>>, <<253, 195, 40>>,
    <<253, 196, 39>>, <<253, 198, 38>>, <<252, 199, 38>>, <<252, 201, 38>>,
    <<252, 203, 37>>, <<252, 204, 37>>, <<252, 206, 37>>, <<251, 208, 36>>,
    <<251, 209, 36>>, <<251, 211, 36>>, <<250, 213, 36>>, <<250, 214, 36>>,
    <<250, 216, 36>>, <<249, 217, 36>>, <<249, 219, 36>>, <<248, 221, 36>>,
    <<248, 223, 36>>, <<247, 224, 36>>, <<247, 226, 37>>, <<246, 228, 37>>,
    <<246, 229, 37>>, <<245, 231, 38>>, <<245, 233, 38>>, <<244, 234, 38>>,
    <<243, 236, 38>>, <<243, 238, 38>>, <<242, 240, 38>>, <<242, 241, 38>>,
    <<241, 243, 38>>, <<240, 245, 37>>, <<240, 246, 35>>, <<239, 248, 33>>
  >>

\* viridis[256][3], in units of 1 / ColourUnit
viridis ==
  <<
    <<26700400, 487400, 32941500>>, <<26851000, 960500, 33542700>>, <<26994400, 1462500, 34137900>>, <<27130500, 1994200, 34726900>>,
    <<27259400, 2556300, 35309300>>, <<27380900, 3149700, 35885300>>, <<27495200, 3775200, 36454300>>, <<27602200, 4416700, 37016400>>,
    <<27701800, 5034400, 37571500>>, <<27794100, 5632400, 38119100>>, <<27879100, 6214500, 38659200>>, <<27956600, 6783600, 39191700>>,
    <<28026700, 7341700, 39716300>>, <<28089400, 7890700, 40232900>>, <<28144600, 8432000, 40741400>>, <<28192400, 8966600, 41241500>>,
    <<28232700, 9495500, 41733100>>, <<28265600, 10019600, 42216000>>, <<28291000, 10539300, 42690200>>, <<28309100, 11055300, 43155400>>,
    <<28319700, 11568000, 43611500>>, <<28322900, 12077700, 44058400>>, <<28318700, 12584800, 44496000>>, <<28307200, 13089500, 44924100>>,
    <<28288400, 13592000, 45342700>>, <<28262300, 14092600, 45751700>>, <<28229000, 14591200, 46151000>>, <<28188700, 15088100, 46540500>>,
    <<28141200, 15583400, 46920100>>, <<28086800, 16077100, 47289900>>, <<28025500, 16569300, 47649800>>, <<27957400, 17059900, 47999700>>,
    <<27882600, 17549000, 48339700>>, <<27801200, 18036700, 48669700>>, <<27713400, 18522800, 48989800>>, <<27619400, 19007400, 49300100>>,
    <<27519100, 19490500, 49600500>>, <<27412800, 19972100, 49891100>>, <<27300600, 20452000, 50172100>>, <<27182800, 20930300, 50443400>>,
    <<27059500, 21406900, 50705200>>, <<26930800, 21881800, 50957700>>, <<26796800, 22354900, 51200800>>, <<26658000, 22826200, 51434900>>,
    <<26514500, 23295600, 51659900>>, <<26366300, 23763100, 51876200>>, <<26213800, 24228600, 52083700>>, <<26057100, 24692200, 52282800>>,
    <<25896500, 25153700, 52473600>>, <<25732200, 25613000, 52656300>>, <<25564500, 26070300, 52831200>>, <<25393500, 26525400, 52998300>>,
    <<25219400, 26978300, 53157900>>, <<25042500, 27429000, 53310300>>, <<24862900, 27877500, 53455600>>, <<24681100, 28323700, 53594100>>,
    <<24497200, 28767500, 53726000>>, <<24311300, 29209200, 53851600>>, <<24123700, 29648500, 53970900>>, <<23934600, 30085500, 54084400>>,
    <<23744100, 30520200, 54192100>>, <<23552600, 30952700, 54294400>>, <<23360300, 31382800, 54391400>>, <<23167400, 31810600, 54483400>>,
    <<22973900, 32236100, 54570600>>, <<22780200, 32659400, 54653200>>, <<22586300, 33080500, 54731400>>, <<22392500, 33499400, 54805300>>,
    <<22198900, 33916100, 54875200>>, <<22005700, 34330700, 54941300>>, <<21813000, 34743200, 55003800>>, <<21621000, 35153500, 55062700>>,
    <<21429800, 35561900, 55118400>>, <<21239500, 35968300, 55171000>>, <<21050300, 36372700, 55220600>>, <<20862300, 36775200, 55267500>>,
    <<20675600, 37175800, 55311700>>, <<20490300, 37574600, 55353300>>, <<20306300, 37971600, 55392500>>, <<20123900, 38367000, 55429400>>,
    <<19943000, 38760700, 55464200>>, <<19763600, 39152800, 55496900>>, <<19586000, 39543300, 55527600>>, <<19410000, 39932300, 55556500>>,
    <<19235700, 40319900, 55583600>>, <<19063100, 40706100, 55608900>>, <<18892300, 41091000, 55632600>>, <<18723100, 41474600, 55654700>>,
    <<18555600, 41857000, 55675300>>, <<18389800, 42238300, 55694400>>, <<18225600, 42618400, 55712000>>, <<18062900, 42997500, 55728200>>,
    <<17901900, 43375600, 55743000>>, <<17742300, 43752700, 55756500>>, <<17584100, 44129000, 55768500>>, <<17427400, 44504400, 55779200>>,
    <<17271900, 44879100, 55788500>>, <<17117600, 45253000, 55796500>>, <<16964600, 45626200, 55803000>>, <<16812600, 45998800, 55808200>>,
    <<16661700, 46370800, 55811900>>, <<16511700, 46742300, 55814100>>, <<16362500, 47113300, 55814800>>, <<16214200, 47483800, 55814000>>,
    <<16066500, 47854000, 55811500>>, <<15919400, 48223700, 55807300>>, <<15772900, 48593200, 55801300>>, <<15627000, 48962400, 55793600>>,
    <<15481500, 49331300, 55784000>>, <<15336400, 49700000, 55772400>>, <<15191800, 50068500, 55758700>>, <<15047600, 50436900, 55743000>>,
    <<14903900, 50805100, 55725000>>, <<14760700, 51173300, 55704900>>, <<14618000, 51541300, 55682300>>, <<14475900, 51909300, 55657200>>,
    <<14334300, 52277300, 55629500>>, <<14193500, 52645300, 55599100>>, <<14053600, 53013200, 55565900>>, <<13914700, 53381200, 55529800>>,
    <<13777000, 53749200, 55490600>>, <<13640800, 54117300, 55448300>>, <<13506600, 54485300, 55402900>>, <<13374300, 54853500, 55354100>>,
    <<13244400, 55221600, 55301800>>, <<13117200, 55589900, 55245900>>, <<12993300, 55958200, 55186400>>, <<12872900, 56326500, 55122900>>,
    <<12756800, 56694900, 55055600>>, <<12645300, 57063300, 54984100>>, <<12539400, 57431800, 54908600>>, <<12439500, 57800200, 54828700>>,
    <<12346300, 58168700, 54744500>>, <<12260600, 58537100, 54655700>>, <<12183100, 58905500, 54562300>>, <<12114800, 59273900, 54464100>>,
    <<12056500, 59642200, 54361100>>, <<12009200, 60010400, 54253000>>, <<11973800, 60378500, 54140000>>, <<11951200, 60746400, 54021800>>,
    <<11942300, 61114100, 53898200>>, <<11948300, 61481700, 53769200>>, <<11969900, 61849000, 53634700>>, <<12008100, 62216100, 53494600>>,
    <<12063800, 62582800, 53348800>>, <<12138000, 62949200, 53197300>>, <<12231200, 63315300, 53039800>>, <<12344400, 63680900, 52876300>>,
    <<12478000, 64046100, 52706800>>, <<12632600, 64410700, 52531100>>, <<12808700, 64774900, 52349100>>, <<13006700, 65138400, 52160800>>,
    <<13226800, 65501400, 51966100>>, <<13469200, 65863600, 51764900>>, <<13733900, 66225200, 51557100>>, <<14021000, 66585900, 51342700>>,
    <<14330300, 66945900, 51121500>>, <<14661600, 67305000, 50893600>>, <<15014800, 67663100, 50658900>>, <<15389400, 68020300, 50417200>>,
    <<15785100, 68376500, 50168600>>, <<16201600, 68731600, 49912900>>, <<16638300, 69085600, 49650200>>, <<17094800, 69438400, 49380300>>,
    <<17570700, 69790000, 49103300>>, <<18065300, 70140200, 48818900>>, <<18578300, 70489100, 48527300>>, <<19109000, 70836600, 48228400>>,
    <<19657100, 71182700, 47922100>>, <<20221900, 71527200, 47608400>>, <<20803000, 71870100, 47287300>>, <<21400000, 72211400, 46958800>>,
    <<22012400, 72550900, 46622600>>, <<22639700, 72888800, 46278900>>, <<23281500, 73224700, 45927700>>, <<23937400, 73558800, 45568800>>,
    <<24607000, 73891000, 45202400>>, <<25289900, 74221100, 44828400>>, <<25985700, 74549200, 44446700>>, <<26694100, 74875100, 44057300>>,
    <<27414900, 75198800, 43660100>>, <<28147700, 75520300, 43255200>>, <<28892100, 75839400, 42842600>>, <<29647900, 76156100, 42422300>>,
    <<30414800, 76470400, 41994300>>, <<31192500, 76782200, 41558600>>, <<31980900, 77091400, 41115200>>, <<32779600, 77398000, 40664000>>,
    <<33588500, 77701800, 40204900>>, <<34407400, 78002900, 39738100>>, <<35236000, 78301100, 39263600>>, <<36074100, 78596400, 38781400>>,
    <<36921400, 78888800, 38291400>>, <<37777900, 79178100, 37793900>>, <<38643300, 79464400, 37288600>>, <<39517400, 79747500, 36775700>>,
    <<40400100, 80027500, 36255200>>, <<41291300, 80304100, 35726900>>, <<42190800, 80577400, 35191000>>, <<43098300, 80847300, 34647600>>,
    <<44013700, 81113800, 34096700>>, <<44936800, 81376800, 33538400>>, <<45867400, 81636300, 32972700>>, <<46805300, 81892100, 32399800>>,
    <<47750400, 82144400, 31819500>>, <<48702600, 82392900, 31232100>>, <<49661500, 82637600, 30637700>>, <<50627100, 82878600, 30036200>>,
    <<51599200, 83115800, 29427900>>, <<52577600, 83349100, 28812700>>, <<53562100, 83578500, 28190800>>, <<54552400, 83803900, 27562600>>,
    <<55548400, 84025400, 26928100>>, <<56549800, 84243000, 26287700>>, <<57556300, 84456600, 25641500>>, <<58567800, 84666100, 24989700>>,
    <<59583900, 84871700, 24332900>>, <<60604500, 85073300, 23671200>>, <<61629300, 85270900, 23005200>>, <<62657900, 85464500, 22335300>>,
    <<63690200, 85654200, 21662000>>, <<64725700, 85840000, 20986100>>, <<65764200, 86021900, 20308200>>, <<66805400, 86199900, 19629300>>,
    <<67848900, 86374200, 18950300>>, <<68894400, 86544800, 18272500>>, <<69941500, 86711700, 17597100>>, <<70989800, 86875100, 16925700>>,
    <<72039100, 87035000, 16260300>>, <<73088900, 87191600, 15602900>>, <<74138800, 87344900, 14956100>>, <<75188400, 87495100, 14322800>>,
    <<76237300, 87642400, 13706400>>, <<77285200, 87786800, 13110900>>, <<78331500, 87928500, 12540500>>, <<79376000, 88067800, 12000500>>,
    <<80418200, 88204600, 11496500>>, <<81457600, 88339300, 11034700>>, <<82494000, 88472000, 10621700>>, <<83527000, 88602900, 10264600>>,
    <<84556100, 88732200, 9970200>>, <<85581000, 88860100, 9745200>>, <<86601300, 88986800, 9595300>>, <<87616800, 89112500, 9525000>>,
    <<88627100, 89237400, 9537400>>, <<89632000, 89361600, 9633500>>, <<90631100, 89485500, 9812500>>, <<91624200, 89609100, 10071700>>,
    <<92610600, 89733000, 10407100>>, <<93590400, 89857000, 10813100>>, <<94563600, 89981500, 11283800>>, <<95530000, 90106500, 11812800>>,
    <<96489400, 90232300, 12394100>>, <<97441700, 90359000, 13021500>>, <<98386800, 90486700, 13689700>>, <<99324800, 90615700, 14393600>>
  >>

\* magma[256][3], in units of 1 / ColourUnit
magma ==
  <<
    <<146200, 46600, 1386600>>, <<225800, 129500, 1833100>>, <<327900, 230500, 2370800>>, <<451200, 349000, 2996500>>,
    <<595000, 484300, 3713000>>, <<758800, 635600, 4497300>>, <<942600, 802200, 5284400>>, <<1146500, 982800, 6075000>>,
    <<1370800, 1177100, 6866700>>, <<1615600, 1384000, 7660300>>, <<1881500, 1602600, 8458400>>, <<2169200, 1832000, 9261000>>,
    <<2479200, 2071500, 10067600>>, <<2812300, 2320100, 10878700>>, <<3169600, 2576500, 11696500>>, <<3552000, 2839700, 12520900>>,
    <<3960800, 3109000, 13351500>>, <<4383000, 3383000, 14188600>>, <<4806200, 3660700, 15032700>>, <<5232000, 3940700, 15884100>>,
    <<5661500, 4216000, 16744600>>, <<6094900, 4479400, 17612900>>, <<6533000, 4731800, 18489200>>, <<6976400, 4972600, 19373500>>,
    <<7425700, 5201700, 20266000>>, <<7881500, 5418400, 21166700>>, <<8344600, 5622500, 22075500>>, <<8815500, 5813300, 22992200>>,
    <<9294900, 5990400, 23916400>>, <<9783300, 6153100, 24847700>>, <<10281500, 6301000, 25785400>>, <<10789900, 6433500, 26728900>>,
    <<11309400, 6549200, 27678400>>, <<11840500, 6647900, 28632100>>, <<12383300, 6729500, 29587900>>, <<12938000, 6793500, 30544300>>,
    <<13505300, 6839100, 31500000>>, <<14085800, 6865400, 32453800>>, <<14678500, 6873800, 33401100>>, <<15283900, 6863700, 34340400>>,
    <<15901800, 6835400, 35268800>>, <<16530800, 6791100, 36181600>>, <<17171300, 6730500, 37077100>>, <<17821200, 6657600, 37949700>>,
    <<18480100, 6573200, 38797300>>, <<19146000, 6481800, 39615200>>, <<19817700, 6386200, 40400900>>, <<20493500, 6290700, 41151400>>,
    <<21171800, 6199200, 41864700>>, <<21851200, 6115800, 42539200>>, <<22530200, 6044500, 43174200>>, <<23207700, 5988900, 43769500>>,
    <<23882600, 5951700, 44325600>>, <<24554300, 5935200, 44843600>>, <<25222000, 5941500, 45324800>>, <<25885700, 5970600, 45771000>>,
    <<26544700, 6023700, 46184000>>, <<27199400, 6099400, 46566000>>, <<27849300, 6197800, 46919000>>, <<28495100, 6316800, 47245100>>,
    <<29136600, 6455300, 47546200>>, <<29774000, 6611700, 47824300>>, <<30408100, 6783500, 48081200>>, <<31038200, 6970200, 48318600>>,
    <<31665400, 7169000, 48538000>>, <<32289900, 7378200, 48740800>>, <<32911400, 7597200, 48928700>>, <<33530800, 7823600, 49102400>>,
    <<34148200, 8056400, 49263100>>, <<34763600, 8294600, 49412100>>, <<35377300, 8537300, 49550100>>, <<35989800, 8783100, 49677800>>,
    <<36601200, 9031400, 49796000>>, <<37211600, 9281600, 49905300>>, <<37821100, 9533200, 50006700>>, <<38429900, 9785500, 50100200>>,
    <<39038400, 10037900, 50186400>>, <<39646700, 10290200, 50265800>>, <<40254800, 10542000, 50338600>>, <<40862900, 10793000, 50405200>>,
    <<41470900, 11043100, 50466200>>, <<42079100, 11292000, 50521500>>, <<42687700, 11539500, 50571400>>, <<43296700, 11785500, 50616000>>,
    <<43906200, 12029800, 50655500>>, <<44516300, 12272400, 50690100>>, <<45127100, 12513200, 50719800>>, <<45738600, 12752200, 50744800>>,
    <<46350800, 12989300, 50765200>>, <<46964000, 13224500, 50780900>>, <<47578000, 13457700, 50792100>>, <<48192900, 13689100, 50798900>>,
    <<48808800, 13918600, 50801100>>, <<49425800, 14146200, 50798800>>, <<50043800, 14371900, 50792000>>, <<50662900, 14595800, 50780600>>,
    <<51283100, 14817900, 50764800>>, <<51904500, 15038300, 50744300>>, <<52527000, 15256900, 50719200>>, <<53150700, 15473900, 50689500>>,
    <<53775500, 15689400, 50655100>>, <<54401500, 15903300, 50615900>>, <<55028700, 16115800, 50571900>>, <<55657100, 16326900, 50523000>>,
    <<56286600, 16536800, 50469200>>, <<56917200, 16745400, 50410500>>, <<57549000, 16953000, 50346600>>, <<58181900, 17159600, 50277700>>,
    <<58815800, 17365200, 50203500>>, <<59450800, 17570100, 50124100>>, <<60086800, 17774300, 50039400>>, <<60723800, 17977900, 49949200>>,
    <<61361700, 18181100, 49853600>>, <<62000500, 18384000, 49752400>>, <<62640100, 18586700, 49645600>>, <<63280500, 18789300, 49533200>>,
    <<63921600, 18992100, 49415000>>, <<64563300, 19195200, 49291000>>, <<65205600, 19398600, 49161100>>, <<65848300, 19602700, 49025300>>,
    <<66491500, 19807500, 48883600>>, <<67134900, 20013300, 48735800>>, <<67778600, 20220300, 48581900>>, <<68422400, 20428600, 48421900>>,
    <<69066100, 20638400, 48255800>>, <<69709800, 20850100, 48083500>>, <<70353200, 21063800, 47904900>>, <<70996200, 21279700, 47720100>>,
    <<71638700, 21498200, 47529000>>, <<72280500, 21719400, 47331600>>, <<72921600, 21943700, 47127900>>, <<73561600, 22171300, 46918000>>,
    <<74200400, 22402500, 46701800>>, <<74837800, 22637700, 46479400>>, <<75473700, 22877200, 46250900>>, <<76107700, 23121400, 46016200>>,
    <<76739800, 23370500, 45775500>>, <<77369500, 23624900, 45528900>>, <<77996800, 23885100, 45276500>>, <<78621200, 24151400, 45018400>>,
    <<79242700, 24424200, 44754300>>, <<79860800, 24704000, 44484800>>, <<80475200, 24991100, 44210200>>, <<81085500, 25286100, 43930500>>,
    <<81691400, 25589500, 43646100>>, <<82292600, 25901600, 43357300>>, <<82888600, 26222900, 43064400>>, <<83479100, 26554000, 42767100>>,
    <<84063600, 26895300, 42466600>>, <<84641600, 27247300, 42163100>>, <<85212600, 27610600, 41857300>>, <<85776300, 27985700, 41549600>>,
    <<86332000, 28372900, 41240300>>, <<86879300, 28772800, 40930300>>, <<87417600, 29185900, 40620500>>, <<87946400, 29612500, 40311800>>,
    <<88465100, 30053000, 40004700>>, <<88973100, 30507900, 39700200>>, <<89470000, 30977300, 39399500>>, <<89955200, 31461600, 39103700>>,
    <<90428100, 31961000, 38813700>>, <<90888400, 32475500, 38530800>>, <<91335400, 33005200, 38256300>>, <<91768900, 33550000, 37991500>>,
    <<92188400, 34109800, 37737600>>, <<92593700, 34684400, 37495900>>, <<92984500, 35273400, 37267700>>, <<93360600, 35876400, 37054100>>,
    <<93722100, 36492900, 36856700>>, <<94068700, 37122400, 36676200>>, <<94400600, 37764300, 36513600>>, <<94718000, 38417800, 36370100>>,
    <<95021000, 39082000, 36246800>>, <<95309900, 39756300, 36143800>>, <<95584900, 40440000, 36061900>>, <<95846400, 41132400, 36001400>>,
    <<96094900, 41832300, 35963000>>, <<96331000, 42539000, 35946900>>, <<96554900, 43251900, 35952900>>, <<96767100, 43970300, 35981000>>,
    <<96968000, 44693600, 36031100>>, <<97158200, 45421000, 36103000>>, <<97338100, 46152000, 36196500>>, <<97508200, 46886100, 36311100>>,
    <<97669000, 47622600, 36446600>>, <<97821000, 48361200, 36602500>>, <<97964500, 49101400, 36778300>>, <<98100000, 49842800, 36973400>>,
    <<98227900, 50585100, 37187400>>, <<98348500, 51328000, 37419800>>, <<98462200, 52071300, 37669800>>, <<98569300, 52814800, 37937100>>,
    <<98670000, 53558200, 38221000>>, <<98764600, 54301500, 38521000>>, <<98853300, 55044600, 38836500>>, <<98936300, 55787300, 39167100>>,
    <<99013800, 56529600, 39512200>>, <<99087100, 57270600, 39871400>>, <<99155800, 58010700, 40244100>>, <<99219600, 58750200, 40629900>>,
    <<99278500, 59489100, 41028300>>, <<99332600, 60227500, 41439000>>, <<99383400, 60964400, 41861300>>, <<99430900, 61699900, 42295000>>,
    <<99473800, 62435000, 42739700>>, <<99512200, 63169600, 43195100>>, <<99548000, 63902700, 43660700>>, <<99581000, 64634400, 44136100>>,
    <<99609600, 65365900, 44621300>>, <<99634100, 66096900, 45116000>>, <<99658000, 66825600, 45619200>>, <<99677500, 67554100, 46131400>>,
    <<99692500, 68282800, 46652600>>, <<99707700, 69008800, 47181100>>, <<99718600, 69734900, 47718200>>, <<99725400, 70461100, 48263500>>,
    <<99732500, 71184800, 48815400>>, <<99735100, 71908900, 49375500>>, <<99735100, 72632400, 49942800>>, <<99734100, 73354500, 50516700>>,
    <<99728500, 74077200, 51098300>>, <<99722800, 74798100, 51685900>>, <<99713800, 75519000, 52280600>>, <<99701900, 76239800, 52882100>>,
    <<99689800, 76959100, 53489200>>, <<99672700, 77679500, 54103900>>, <<99657100, 78397700, 54723300>>, <<99636900, 79116700, 55349900>>,
    <<99616200, 79834800, 55982000>>, <<99593200, 80552700, 56620200>>, <<99568000, 81270600, 57264500>>, <<99542400, 81987500, 57914000>>,
    <<99513100, 82705200, 58570100>>, <<99485100, 83421300, 59230700>>, <<99452400, 84138700, 59898300>>, <<99422200, 84854000, 60569600>>,
    <<99386600, 85571100, 61248200>>, <<99354500, 86285900, 61929900>>, <<99317000, 87002400, 62618900>>, <<99283100, 87716800, 63310900>>,
    <<99244000, 88433000, 64009900>>, <<99208900, 89147000, 64711600>>, <<99168800, 89862700, 65420200>>, <<99133200, 90576300, 66130900>>,
    <<99093000, 91291500, 66848100>>, <<99057000, 92004900, 67567500>>, <<99017500, 92719600, 68292600>>, <<98981500, 93432900, 69019800>>,
    <<98943400, 94147000, 69751900>>, <<98907700, 94860400, 70486300>>, <<98871700, 95574200, 71224200>>, <<98836700, 96287800, 71964900>>,
    <<98803300, 97001200, 72707700>>, <<98769100, 97715400, 73453600>>, <<98738700, 98428800, 74200200>>, <<98705300, 99143800, 74950400>>
  >>

\* grape[256][3], in units of 1 / ColourUnit
grape ==
  <<
    <<17842553, 13513835, 16166147>>, <<18388264, 13648638, 16468080>>, <<18936728, 13778491, 16770558>>, <<19488022, 13903261, 17073898>>,
    <<20042130, 14022861, 17378394>>, <<20598563, 14137481, 17684278>>, <<21157859, 14246709, 17991876>>, <<21719224, 14350927, 18301362>>,
    <<22283364, 14449600, 18613078>>, <<22849466, 14543139, 18927175>>, <<23418280, 14630950, 19244010>>, <<23989079, 14713399, 19563734>>,
    <<24562333, 14790049, 19886677>>, <<25137776, 14860955, 20213061>>, <<25715275, 14926082, 20543125>>, <<26295307, 14984937, 20877243>>,
    <<26877366, 15037739, 21215597>>, <<27461474, 15084315, 21558481>>, <<28047940, 15124248, 21906277>>, <<28636528, 15157537, 22259249>>,
    <<29227150, 15184054, 22617704>>, <<29819806, 15203591, 22981989>>, <<30414483, 15215932, 23352464>>, <<31011161, 15220851, 23729507>>,
    <<31609850, 15218073, 24113528>>, <<32210445, 15207411, 24504918>>, <<32812853, 15188652, 24904092>>, <<33417037, 15161504, 25311512>>,
    <<34022963, 15125649, 25727673>>, <<34630479, 15080860, 26153044>>, <<35239459, 15026865, 26588132>>, <<35849751, 14963392, 27033462>>,
    <<36461184, 14890165, 27489576>>, <<37073920, 14806473, 27957272>>, <<37687445, 14712369, 28436966>>, <<38301619, 14607434, 28929339>>,
    <<38916394, 14491071, 29435205>>, <<39531286, 14363215, 29955093>>, <<40146175, 14223269, 30489865>>, <<40760722, 14070879, 31040263>>,
    <<41374455, 13905853, 31606950>>, <<41987027, 13727763, 32190751>>, <<42598098, 13536106, 32792574>>, <<43207074, 13330738, 33413104>>,
    <<43813387, 13111453, 34053083>>, <<44416424, 12878087, 34713240>>, <<45015613, 12630362, 35394403>>, <<45610114, 12368516, 36097045>>,
    <<46199101, 12092812, 36821625>>, <<46781790, 11803456, 37568667>>, <<47357251, 11501071, 38338399>>, <<47924506, 11186553, 39130864>>,
    <<48482535, 10861132, 39945883>>, <<49030394, 10526086, 40783299>>, <<49566975, 10183585, 41642320>>, <<50091274, 9835974, 42522120>>,
    <<50602315, 9486118, 43421594>>, <<51099169, 9137440, 44339370>>, <<51580979, 8793930, 45273836>>, <<52046983, 8460151, 46223172>>,
    <<52496528, 8141217, 47185394>>, <<52929077, 7842746, 48158397>>, <<53344214, 7570762, 49140009>>, <<53741646, 7331545, 50128038>>,
    <<54121191, 7131449, 51120295>>, <<54482771, 6976630, 52114633>>, <<54826405, 6872700, 53109007>>, <<55152190, 6824411, 54101477>>,
    <<55460291, 6835358, 55090216>>, <<55750924, 6907723, 56073534>>, <<56024349, 7042163, 57049884>>, <<56280851, 7237845, 58017846>>,
    <<56520740, 7492600, 58976132>>, <<56744336, 7803182, 59923572>>, <<56951969, 8165576, 60859094>>, <<57143963, 8575302, 61781771>>,
    <<57320642, 9027707, 62690754>>, <<57482327, 9518184, 63585281>>, <<57629328, 10042330, 64464669>>, <<57761947, 10596050, 65328307>>,
    <<57880479, 11175607, 66175646>>, <<57985206, 11777648, 67006198>>, <<58076404, 12399190, 67819522>>, <<58154339, 13037605, 68615227>>,
    <<58219268, 13690587, 69392960>>, <<58271442, 14356120, 70152406>>, <<58311105, 15032442, 70893284>>, <<58338497, 15718015, 71615342>>,
    <<58353852, 16411493, 72318358>>, <<58357402, 17111698, 73002132>>, <<58349377, 17817593, 73666490>>, <<58330008, 18528263, 74311279>>,
    <<58299524, 19242899, 74936366>>, <<58258158, 19960777, 75541636>>, <<58206142, 20681253, 76126998>>, <<58143712, 21403747, 76692374>>,
    <<58071112, 22127732, 77237705>>, <<57988591, 22852728, 77762948>>, <<57896402, 23578296, 78268078>>, <<57794809, 24304030, 78753087>>,
    <<57684084, 25029554, 79217983>>, <<57564508, 25754517, 79662790>>, <<57436373, 26478589, 80087551>>, <<57299981, 27201459, 80492325>>,
    <<57155649, 27922832, 80877191>>, <<57003705, 28642427, 81242242>>, <<56844491, 29359975, 81587594>>, <<56678362, 30075218, 81913378>>,
    <<56505689, 30787908, 82219746>>, <<56326858, 31497804, 82506870>>, <<56142269, 32204677, 82774940>>, <<55952336, 32908303, 83024170>>,
    <<55757491, 33608464, 83254789>>, <<55558182, 34304953, 83467053>>, <<55354871, 34997564, 83661233>>, <<55148034, 35686103, 83837625>>,
    <<54938162, 36370381, 83996545>>, <<54725759, 37050216, 84138328>>, <<54511344, 37725433, 84263332>>, <<54295446, 38395866, 84371932>>,
    <<54078604, 39061356, 84464526>>, <<53861369, 39721751, 84541529>>, <<53644299, 40376910, 84603374>>, <<53427957, 41026698, 84650513>>,
    <<53212915, 41670992, 84683411>>, <<52999745, 42309676, 84702553>>, <<52789021, 42942645, 84708434>>, <<52581315, 43569805, 84701564>>,
    <<52377200, 44191070, 84682463>>, <<52177240, 44806368, 84651661>>, <<51981993, 45415634, 84609697>>, <<51792009, 46018816, 84557116>>,
    <<51607826, 46615872, 84494467>>, <<51429966, 47206772, 84422304>>, <<51258940, 47791495, 84341181>>, <<51095236, 48370033, 84251655>>,
    <<50939329, 48942384, 84154281>>, <<50791666, 49508561, 84049609>>, <<50652672, 50068587, 83938183>>, <<50522749, 50622492, 83820544>>,
    <<50402271, 51170318, 83697223>>, <<50291585, 51712114, 83568745>>, <<50191010, 52247939, 83435622>>, <<50100834, 52777859, 83298359>>,
    <<50021319, 53301947, 83157449>>, <<49952693, 53820284, 83013373>>, <<49895150, 54332960, 82866590>>, <<49848855, 54840071, 82717552>>,
    <<49813941, 55341717, 82566693>>, <<49790512, 55838004, 82414434>>, <<49778644, 56329040, 82261188>>, <<49778378, 56814940, 82107343>>,
    <<49789723, 57295826, 81953267>>, <<49812663, 57771821, 81799316>>, <<49847153, 58243051, 81645831>>, <<49893128, 58709639, 81493150>>,
    <<49950487, 59171721, 81341573>>, <<50019106, 59629429, 81191388>>, <<50098841, 60082900, 81042874>>, <<50189529, 60532265, 80896303>>,
    <<50290981, 60977665, 80751914>>, <<50402985, 61419238, 80609933>>, <<50525318, 61857124, 80470576>>, <<50657743, 62291459, 80334059>>,
    <<50799996, 62722387, 80200552>>, <<50951805, 63150048, 80070228>>, <<51112889, 63574581, 79943254>>, <<51282948, 63996127, 79819768>>,
    <<51461675, 64414827, 79699896>>, <<51648755, 64830822, 79583758>>, <<51843862, 65244250, 79471458>>, <<52046664, 65655254, 79363078>>,
    <<52256822, 66063972, 79258695>>, <<52473993, 66470545, 79158372>>, <<52697828, 66875111, 79062152>>, <<52927978, 67277809, 78970067>>,
    <<53164088, 67678779, 78882137>>, <<53405803, 68078158, 78798362>>, <<53652767, 68476085, 78718733>>, <<53904627, 68872697, 78643220>>,
    <<54161027, 69268131, 78571781>>, <<54421616, 69662523, 78504357>>, <<54686046, 70056010, 78440868>>, <<54953973, 70448725, 78381224>>,
    <<55225060, 70840802, 78325313>>, <<55498973, 71232375, 78272997>>, <<55775391, 71623573, 78224135>>, <<56054000, 72014527, 78178559>>,
    <<56334495, 72405364, 78136067>>, <<56616586, 72796208, 78096460>>, <<56899999, 73187181, 78059509>>, <<57184471, 73578401, 78024954>>,
    <<57469760, 73969985, 77992519>>, <<57755644, 74362040, 77961919>>, <<58041922, 74754671, 77932838>>, <<58328416, 75147981, 77904926>>,
    <<58614975, 75542061, 77877830>>, <<58901475, 75936996, 77851180>>, <<59187822, 76332865, 77824580>>, <<59473954, 76729738, 77797618>>,
    <<59759841, 77127679, 77769850>>, <<60045488, 77526737, 77740843>>, <<60330938, 77926953, 77710145>>, <<60616272, 78328359, 77677292>>,
    <<60901606, 78730972, 77641811>>, <<61187097, 79134802, 77603224>>, <<61472943, 79539844, 77561052>>, <<61759377, 79946082, 77514814>>,
    <<62046677, 80353487, 77464034>>, <<62335154, 80762017, 77408242>>, <<62625161, 81171620, 77346977>>, <<62917087, 81582228, 77279790>>,
    <<63211355, 81993764, 77206245>>, <<63508424, 82406137, 77125927>>, <<63808784, 82819246, 77038427>>, <<64112954, 83232981, 76943331>>,
    <<64421489, 83647212, 76840325>>, <<64734968, 84061803, 76729084>>, <<65053992, 84476616, 76609234>>, <<65379192, 84891487, 76480547>>,
    <<65711220, 85306252, 76342757>>, <<66050751, 85720734, 76195622>>, <<66398480, 86134747, 76038960>>, <<66755124, 86548088, 75872646>>,
    <<67121422, 86960558, 75696447>>, <<67498129, 87371931, 75510363>>, <<67886025, 87781976, 75314325>>, <<68285911, 88190450, 75108309>>,
    <<68698610, 88597096, 74892340>>, <<69124973, 89001641, 74666498>>, <<69565872, 89403798, 74430926>>, <<70022207, 89803257, 74185843>>,
    <<70494935, 90199697, 73931381>>, <<70984994, 90592765, 73668045>>, <<71493422, 90982091, 73396099>>, <<72021236, 91367274, 73116189>>,
    <<72569528, 91747884, 72828927>>, <<73139420, 92123460, 72535097>>, <<73732063, 92493506, 72235684>>, <<74348624, 92857492, 71931896>>,
    <<74990347, 93214846, 71625026>>, <<75658370, 93564971, 71316899>>, <<76353852, 93907236, 71009516>>, <<77077848, 94240996, 70705291>>,
    <<77831226, 94565608, 70407107>>, <<78614703, 94880440, 70118136>>, <<79428492, 95184950, 69842228>>, <<80272416, 95478691, 69583468>>,
    <<81145663, 95761390, 69346237>>, <<82046728, 96032991, 69134936>>, <<82973371, 96293708, 68953698>>, <<83922653, 96544050, 68806037>>,
    <<84891140, 96784792, 68694452>>, <<85875138, 97016928, 68620163>>, <<86870981, 97241593, 68582981>>, <<87875336, 97459951, 68581323>>
  >>

\* inferno[256][3], in units of 1 / ColourUnit
inferno ==
  <<
    <<146200, 46600, 1386600>>, <<226700, 127000, 1857000>>, <<329900, 224900, 2423900>>, <<454700, 339200, 3090900>>,
    <<600600, 469200, 3855800>>, <<767600, 613600, 4683600>>, <<956100, 771300, 5514300>>, <<1166300, 941700, 6346000>>,
    <<1399500, 1122500, 7186200>>, <<1656100, 1313600, 8028200>>, <<1937300, 1513300, 8876700>>, <<2244700, 1719900, 9732700>>,
    <<2579300, 1933100, 10593000>>, <<2943200, 2150300, 11462100>>, <<3338500, 2370200, 12339700>>, <<3766800, 2592100, 13223200>>,
    <<4225300, 2813900, 14114100>>, <<4691500, 3032400, 15016400>>, <<5164400, 3247400, 15925400>>, <<5644900, 3456900, 16841400>>,
    <<6134000, 3659000, 17764200>>, <<6633100, 3850400, 18696200>>, <<7142900, 4029400, 19635400>>, <<7663700, 4190500, 20579900>>,
    <<8196200, 4332800, 21528900>>, <<8741100, 4455600, 22481300>>, <<9299000, 4558300, 23435800>>, <<9870200, 4640200, 24390400>>,
    <<10455100, 4700800, 25343000>>, <<11053600, 4739900, 26291200>>, <<11665600, 4757400, 27232100>>, <<12290800, 4753600, 28162400>>,
    <<12928500, 4729300, 29078800>>, <<13577800, 4685600, 29977600>>, <<14237800, 4624200, 30855300>>, <<14907300, 4546800, 31708500>>,
    <<15585000, 4455900, 32533800>>, <<16268900, 4355400, 33327700>>, <<16957500, 4248900, 34087400>>, <<17649300, 4140200, 34811100>>,
    <<18342900, 4032900, 35497100>>, <<19036700, 3930900, 36144700>>, <<19729700, 3840000, 36753500>>, <<20420900, 3763200, 37323800>>,
    <<21109500, 3703000, 37856300>>, <<21794900, 3661500, 38352200>>, <<22476300, 3640500, 38812900>>, <<23153800, 3640500, 39240000>>,
    <<23827300, 3662100, 39635300>>, <<24496700, 3705500, 40000700>>, <<25162000, 3770500, 40337800>>, <<25823400, 3857100, 40648500>>,
    <<26481000, 3964700, 40934500>>, <<27134700, 4092200, 41197600>>, <<27785000, 4235300, 41439200>>, <<28432100, 4393300, 41660800>>,
    <<29076300, 4564400, 41863700>>, <<29717800, 4747000, 42049100>>, <<30356800, 4939600, 42218200>>, <<30993500, 5140700, 42372100>>,
    <<31628200, 5349000, 42511600>>, <<32261000, 5563400, 42637700>>, <<32892100, 5782700, 42751100>>, <<33521700, 6006000, 42852400>>,
    <<34150000, 6232500, 42942500>>, <<34777100, 6461600, 43021700>>, <<35403200, 6692500, 43090600>>, <<36028400, 6924700, 43149700>>,
    <<36652900, 7157900, 43199400>>, <<37276800, 7391500, 43240000>>, <<37900100, 7625300, 43271900>>, <<38522800, 7859100, 43295500>>,
    <<39145300, 8092700, 43310900>>, <<39767400, 8325700, 43318300>>, <<40389400, 8558000, 43317900>>, <<41011300, 8789600, 43309800>>,
    <<41633100, 9020300, 43294300>>, <<42254900, 9250100, 43271400>>, <<42876800, 9479000, 43241200>>, <<43498700, 9706900, 43203900>>,
    <<44120700, 9933800, 43159400>>, <<44742800, 10159700, 43108000>>, <<45365100, 10384800, 43049800>>, <<45987500, 10608900, 42984600>>,
    <<46610000, 10832200, 42912500>>, <<47232800, 11054700, 42833400>>, <<47855800, 11276400, 42747500>>, <<48478900, 11497400, 42654800>>,
    <<49102200, 11717900, 42555200>>, <<49725700, 11937900, 42448800>>, <<50349300, 12157500, 42335600>>, <<50973000, 12376900, 42215600>>,
    <<51596700, 12596000, 42088700>>, <<52220600, 12815000, 41954900>>, <<52844400, 13034100, 41814200>>, <<53468300, 13253400, 41666700>>,
    <<54092000, 13472900, 41512300>>, <<54715700, 13692900, 41351100>>, <<55339200, 13913400, 41182900>>, <<55962400, 14134600, 41007800>>,
    <<56585400, 14356700, 40825800>>, <<57208100, 14579700, 40636900>>, <<57830400, 14803900, 40441100>>, <<58452100, 15029400, 40238500>>,
    <<59073400, 15256300, 40029000>>, <<59694000, 15484800, 39812500>>, <<60313900, 15715100, 39589100>>, <<60933000, 15947400, 39358900>>,
    <<61551300, 16181700, 39121900>>, <<62168500, 16418400, 38878100>>, <<62784700, 16657500, 38627600>>, <<63399800, 16899200, 38370400>>,
    <<64013500, 17143800, 38106500>>, <<64626000, 17391400, 37835900>>, <<65236900, 17642100, 37558600>>, <<65846300, 17896200, 37274800>>,
    <<66454000, 18153900, 36984600>>, <<67059900, 18415300, 36687900>>, <<67663800, 18680700, 36384900>>, <<68265600, 18950100, 36075700>>,
    <<68865300, 19223900, 35760300>>, <<69462700, 19502100, 35438800>>, <<70057600, 19785100, 35111300>>, <<70650000, 20072800, 34777700>>,
    <<71239600, 20365600, 34438300>>, <<71826400, 20663600, 34093100>>, <<72410300, 20967000, 33742400>>, <<72990900, 21275900, 33386100>>,
    <<73568300, 21590600, 33024500>>, <<74142300, 21911200, 32657600>>, <<74712700, 22237800, 32285600>>, <<75279400, 22570600, 31908500>>,
    <<75842200, 22909700, 31526600>>, <<76401000, 23255400, 31139900>>, <<76955600, 23607700, 30748500>>, <<77505900, 23966700, 30352600>>,
    <<78051700, 24332700, 29952300>>, <<78592900, 24705600, 29547700>>, <<79129300, 25085600, 29139000>>, <<79660700, 25472800, 28726400>>,
    <<80187100, 25867400, 28309900>>, <<80708200, 26269200, 27889800>>, <<81223900, 26678600, 27466100>>, <<81734100, 27095400, 27039000>>,
    <<82238600, 27519700, 26608500>>, <<82737200, 27951700, 26175000>>, <<83229900, 28391300, 25738300>>, <<83716500, 28838500, 25298800>>,
    <<84196900, 29293300, 24856400>>, <<84670900, 29755900, 24411300>>, <<85138400, 30226000, 23963600>>, <<85599200, 30703800, 23513300>>,
    <<86053300, 31189200, 23060600>>, <<86500600, 31682200, 22605500>>, <<86940900, 32182700, 22148200>>, <<87374100, 32690600, 21688600>>,
    <<87800100, 33206000, 21226800>>, <<88218800, 33728700, 20762800>>, <<88630200, 34258600, 20296800>>, <<89034100, 34795700, 19828600>>,
    <<89430500, 35339900, 19358400>>, <<89819200, 35891100, 18886000>>, <<90200300, 36449200, 18411600>>, <<90573500, 37014000, 17935000>>,
    <<90939000, 37585600, 17456300>>, <<91296600, 38163600, 16975500>>, <<91646200, 38748100, 16492400>>, <<91987900, 39338900, 16007000>>,
    <<92321500, 39935900, 15519300>>, <<92647000, 40538900, 15029200>>, <<92964400, 41147900, 14536700>>, <<93273700, 41762700, 14041700>>,
    <<93574700, 42383100, 13544000>>, <<93867500, 43009100, 13043800>>, <<94152100, 43640500, 12540900>>, <<94428500, 44277200, 12035400>>,
    <<94696500, 44919100, 11527200>>, <<94956200, 45566000, 11016400>>, <<95207500, 46217800, 10503100>>, <<95450600, 46874400, 9987400>>,
    <<95685200, 47535600, 9469500>>, <<95911400, 48201400, 8949900>>, <<96129300, 48871600, 8428900>>, <<96338700, 49546200, 7907300>>,
    <<96539700, 50224900, 7385900>>, <<96732200, 50907800, 6865900>>, <<96916300, 51594600, 6348800>>, <<97091900, 52285300, 5836700>>,
    <<97259000, 52979800, 5332400>>, <<97417600, 53678000, 4839200>>, <<97567700, 54379800, 4361800>>, <<97709200, 55085000, 3905000>>,
    <<97842200, 55793700, 3493100>>, <<97966600, 56505700, 3140900>>, <<98082400, 57220900, 2850800>>, <<98189500, 57939200, 2625000>>,
    <<98288100, 58660600, 2466100>>, <<98377900, 59384900, 2377000>>, <<98459100, 60112200, 2360600>>, <<98531500, 60842200, 2420200>>,
    <<98595200, 61575000, 2559200>>, <<98650200, 62310500, 2781400>>, <<98696400, 63048500, 3090800>>, <<98733700, 63789000, 3491600>>,
    <<98762200, 64532000, 3988600>>, <<98781900, 65277300, 4558100>>, <<98792600, 66025000, 5175000>>, <<98794500, 66774800, 5832900>>,
    <<98787400, 67526700, 6525700>>, <<98771400, 68280700, 7248900>>, <<98746400, 69036600, 7999000>>, <<98712400, 69794400, 8773100>>,
    <<98669400, 70554000, 9569400>>, <<98617500, 71315300, 10386300>>, <<98556600, 72078200, 11222900>>, <<98486500, 72842700, 12078500>>,
    <<98407500, 73608700, 12952700>>, <<98319600, 74375800, 13845300>>, <<98222800, 75144200, 14756500>>, <<98117300, 75913500, 15686300>>,
    <<98003200, 76683700, 16635300>>, <<97880600, 77454500, 17603700>>, <<97749700, 78225800, 18592300>>, <<97610800, 78997400, 19601800>>,
    <<97463800, 79769200, 20633200>>, <<97308800, 80540900, 21687700>>, <<97146800, 81312200, 22765800>>, <<96978300, 82082500, 23868600>>,
    <<96804100, 82851500, 24997200>>, <<96624300, 83619100, 26153400>>, <<96439400, 84384800, 27339100>>, <<96251700, 85147600, 28554600>>,
    <<96062600, 85906900, 29801000>>, <<95872000, 86662400, 31082000>>, <<95683400, 87412900, 32397400>>, <<95499700, 88156900, 33747500>>,
    <<95321500, 88894200, 35136900>>, <<95154600, 89622600, 36562700>>, <<95001800, 90340900, 38027100>>, <<94868300, 91047300, 39528900>>,
    <<94759400, 91739900, 41066500>>, <<94680900, 92416800, 42637300>>, <<94639200, 93076100, 44236700>>, <<94640300, 93715900, 45859200>>,
    <<94690300, 94334800, 47497000>>, <<94793700, 94931800, 49142600>>, <<94954500, 95506300, 50786000>>, <<95174000, 96058700, 52420300>>,
    <<95452900, 96589600, 54036100>>, <<95789600, 97100300, 55627500>>, <<96181200, 97592400, 57192500>>, <<96624900, 98067800, 58720600>>,
    <<97116200, 98528200, 60215400>>, <<97651100, 98975300, 61676000>>, <<98225700, 99410900, 63101700>>, <<98836200, 99836400, 64492400>>
  >>

\* a QColor that is not valid: default-constructed, or set from a component
\* outside 0..255
InvalidColor == <<-1, -1, -1>>

\* QColor::setRgb(r, g, b)
setRgb(r, g, b) ==
    IF r \in 0 .. 255 /\ g \in 0 .. 255 /\ b \in 0 .. 255
    THEN <<r, g, b>> ELSE InvalidColor

\* int(c * 256) for a component c of a float table: c * 256 / ColourUnit,
\* computed without forming the product
FloatComp(c) == c \div (ColourUnit \div 256)

\* the colour map names of the calls
CmapNames ==
    { "gqrx", "turbo", "plasma", "whitehotcompressed", "whitehot", "blackhot",
      "viridis", "magma", "inferno", "grape",
      "GQRX", "WhiteHot", "Viridis", "", "white hot", "jet" }

\* the lower-case form of a name of CmapNames
toLower(name) ==
    CASE name = "GQRX" -> "gqrx"
      [] name = "WhiteHot" -> "whitehot"
      [] name = "Viridis" -> "viridis"
      [] OTHER -> name

\* a.compare(b, Qt::CaseInsensitive) == 0
compare(a, b) == toLower(a) = toLower(b)

\* entry i of the "gqrx" map
GqrxColour(i) ==
    IF i < 20 THEN setRgb(0, 0, 0)
    ELSE IF i >= 20 /\ i < 70 THEN setRgb(0, 0, (140 * (i - 20)) \div 50)
    ELSE IF i >= 70 /\ i < 100
    THEN setRgb((60 * (i - 70)) \div 30, (125 * (i - 70)) \div 30,
                (115 * (i - 70)) \div 30 + 140)
    ELSE IF i >= 100 /\ i < 150
    THEN setRgb((195 * (i - 100)) \div 50 + 60, (130 * (i - 100)) \div 50 + 125,
                255 - ((255 * (i - 100)) \div 50))
    ELSE IF i >= 150 /\ i < 250
    THEN setRgb(255, 255 - (255 * (i - 150)) \div 100, 0)
    ELSE setRgb(255, (255 * (i - 250)) \div 5, (255 * (i - 250)) \div 5)

ByteTable(t) == [i \in 0 .. 255 |-> setRgb(t[i + 1][1], t[i + 1][2], t[i + 1][3])]

FloatTable(t) ==
    [ i \in 0 .. 255 |-> setRgb(FloatComp(t[i + 1][1]), FloatComp(t[i + 1][2]),
                                FloatComp(t[i + 1][3])) ]

\* faulty variant: "whitehot" is built like "whitehotcompressed"
ColorTbl_Compressed(tbl, cmap) ==
    IF compare(cmap, "gqrx") THEN [i \in 0 .. 255 |-> GqrxColour(i)]
    ELSE IF compare(cmap, "whitehot") \/ compare(cmap, "whitehotcompressed")
    THEN [ i \in 0 .. 255 |->
             IF i < 64 THEN setRgb(i * 4, i * 4, i * 4)
             ELSE setRgb(255, 255, 255) ]
    ELSE tbl

\* m_ColorTbl after setWfColormap(cmap), tbl being the table before
ColorTbl(tbl, cmap) ==
    IF compare(cmap, "gqrx") THEN [i \in 0 .. 255 |-> GqrxColour(i)]
    ELSE IF compare(cmap, "turbo") THEN ByteTable(turbo)
    ELSE IF compare(cmap, "plasma") THEN ByteTable(plasma)
    ELSE IF compare(cmap, "whitehotcompressed")
    THEN [ i \in 0 .. 255 |->
             IF i < 64 THEN setRgb(i * 4, i * 4, i * 4)
             ELSE setRgb(255, 255, 255) ]
    ELSE IF compare(cmap, "whitehot") THEN [i \in 0 .. 255 |-> setRgb(i, i, i)]
    ELSE IF compare(cmap, "blackhot")
    THEN [i \in 0 .. 255 |-> setRgb(255 - i, 255 - i, 255 - i)]
    ELSE IF compare(cmap, "viridis") THEN FloatTable(viridis)
    ELSE IF compare(cmap, "magma") THEN FloatTable(magma)
    ELSE IF compare(cmap, "inferno") THEN FloatTable(inferno)
    ELSE IF compare(cmap, "grape") THEN FloatTable(grape)
    ELSE tbl

-----------------------------------------------------------------------------
(* Member functions, as functions from run to run *)

roundFreq(freq, resolution) ==
    LET delta == resolution
        delta_2 == delta \div 2
    IN IF freq >= 0
       THEN freq - CMod(freq + delta_2, delta) + delta_2
       ELSE freq - CMod(freq + delta_2, delta) - delta_2

setWfColormap(r, cmap) == [r EXCEPT !.o.m_ColorTbl = ColorTbl(@, cmap)]

\* plotter.h: qBound(-limit, f, limit), limit = (m_SampleFreq + m_Span)/2 - 1
setFftCenterFreq(q, f) ==
    LET limit == (q.m_SampleFreq + q.m_Span) \div 2 - 1
    IN [q EXCEPT !.m_FftCenter = qBound(-limit, f, limit)]

\* freqFromX(x) - m_CenterFreq - m_FftCenter
FreqOffsetFromX(q, x) ==
    IF Width(q) > 0
    THEN qRound(2 * x * q.m_Span - Width(q) * q.m_Span, 2 * Width(q))
    ELSE qRound(-q.m_Span, 2)

setWaterfallSpan(r, span_ms) ==
    LET q == [r.o EXCEPT !.wf_span = span_ms]
        q1 == IF ~WaterfallIsNull(q)
              THEN [ q EXCEPT !.wf_epoch = now, !.wf_count = 0,
                              !.msec_per_wfline =
                                  <<span_ms, q.m_WaterfallImage[2]>> ]
              ELSE q
    IN [r EXCEPT !.o = clearWaterfallBuf([q1 EXCEPT !.wf_valid_since_ms = now])]

setPandapterRange(r, min, max) ==
    IF out_of_range(min, max) THEN r
    ELSE updateOverlay([ r EXCEPT !.o.m_PandMindB = min,
                                  !.o.m_PandMaxdB = max,
                                  !.o.m_histIIRValid = FALSE ])

setWaterfallRange(r, min, max) ==
    IF out_of_range(min, max) THEN r
    ELSE [r EXCEPT !.o.m_WfMindB = min, !.o.m_WfMaxdB = max]

setFftRange(r, min, max) ==
    setPandapterRange(setWaterfallRange(r, min, max), min, max)

\* mouseMoveEvent with the Y axis captured and the left button down:
\* "move Y scale up/down"
mouseMoveYAxis(r, py) ==
    LET q == r.o
        h == q.m_OverlayPixmap[2]
        delta_px == q.m_Yzero - py
        delta_db == qRound(delta_px * Abs(q.m_PandMindB - q.m_PandMaxdB), h)
        min == q.m_PandMindB - delta_db
        max == q.m_PandMaxdB - delta_db
    IN IF out_of_range(min, max) THEN r
       ELSE updateOverlay([ r EXCEPT !.o.m_PandMindB = min,
                                     !.o.m_PandMaxdB = max,
                                     !.o.m_histIIRValid = FALSE,
                                     !.o.m_Yzero = py ])

\* wheelEvent with the Y axis captured: "Vertical zoom", zoom_fac = zn / zd
wheelYAxis(r, py, zn, zd) ==
    LET q == r.o
        h == q.m_OverlayPixmap[2]
        db_range == q.m_PandMaxdB - q.m_PandMindB
        new_range == qBound(FFT_MIN_DB_RANGE, qRound(db_range * zn, zd),
                            FFT_MAX_DB - FFT_MIN_DB)
        \* fixed_db + ratio * db_range
        max0 == q.m_PandMaxdB + qRound(py * (new_range - db_range), h)
        max == IF max0 > FFT_MAX_DB THEN FFT_MAX_DB ELSE max0
        min0 == max - new_range
        min == IF min0 < FFT_MIN_DB THEN FFT_MIN_DB ELSE min0
    IN updateOverlay([ r EXCEPT !.o.m_PandMaxdB = max,
                                !.o.m_PandMindB = min,
                                !.o.m_histIIRValid = FALSE ])

\* zoomStepX(step, x), step = sn / sd; f_min and f_max are kept in units of
\* half a hertz
zoomStepX(r, sn, sd, x) ==
    LET q == r.o
        sf == q.m_SampleFreq
        limited == /\ q.m_fftDataSize # 0
                   /\ \/ sn >= sd /\ sf <= q.m_Span
                      \/ sn < sd /\ 4 * sf >= q.m_fftDataSize * q.m_Span
        new_span == Min(MulDiv(q.m_Span, sn, sd), sf)
        offset == FreqOffsetFromX(q, x)
        new_FftCenter == q.m_FftCenter + offset - SignedMulDiv(offset, sn, sd)
        fmax0 == 2 * new_FftCenter + new_span
        fmin0 == 2 * new_FftCenter - new_span
        fmin1 == IF fmin0 < -sf THEN -sf ELSE fmin0
        fmax1 == IF fmin0 < -sf THEN fmin1 + 2 * new_span ELSE fmax0
        fmax2 == IF fmax1 > sf THEN sf ELSE fmax1
        fmin2 == IF fmax1 > sf THEN fmax2 - 2 * new_span ELSE fmin1
        \* m_Span = new_span: new_span_int is not used
        q1 == [q EXCEPT !.m_Span = new_span]
        q2 == setFftCenterFreq(q1, qRound(fmax2 + fmin2, 4))
    IN IF limited THEN r
       ELSE updateOverlay([ r EXCEPT !.o = [ q2 EXCEPT
                                               !.m_MaxHoldValid = FALSE,
                                               !.m_MinHoldValid = FALSE,
                                               !.m_histIIRValid = FALSE ] ])

\* wheelEvent with the X axis captured
wheelXAxis(r, px, sn, sd) == updateOverlay(zoomStepX(r, sn, sd, px))

\* mouseMoveEvent with the X axis captured and the left button down:
\* "pan viewable range"
mouseMoveXAxis(r, px) ==
    LET q == r.o
        w == q.m_OverlayPixmap[1]
        delta_px == q.m_Xzero - px
        delta_hz == qRound(delta_px * q.m_Span, w)
        q1 == setFftCenterFreq(q, q.m_FftCenter + delta_hz)
    IN IF delta_hz = 0 THEN r
       ELSE updateOverlay([ r EXCEPT !.o = [ q1 EXCEPT
                                               !.m_MaxHoldValid = FALSE,
                                               !.m_MinHoldValid = FALSE,
                                               !.m_histIIRValid = FALSE,
                                               !.m_Xzero = px ] ])

setPlotMode(r, mode) ==
    updateOverlay([ r EXCEPT !.o.m_PlotMode = mode,
                             !.o.m_MaxHoldValid = FALSE,
                             !.o.m_MinHoldValid = FALSE ])

setPlotScale(r, scale, perHz) ==
    [ r EXCEPT !.o.m_PlotScale = scale, !.o.m_PlotPerHz = perHz,
               !.o.m_MaxHoldValid = FALSE, !.o.m_MinHoldValid = FALSE,
               !.o.m_IIRValid = FALSE, !.o.m_histIIRValid = FALSE ]

setCenterFreq(r, f) ==
    LET q == r.o
        offset == q.m_CenterFreq - q.m_DemodCenterFreq
    IN IF q.m_CenterFreq = f THEN r
       ELSE updateOverlay([ r EXCEPT !.o.m_CenterFreq = f,
                                     !.o.m_DemodCenterFreq = f - offset,
                                     !.o.m_MaxHoldValid = FALSE,
                                     !.o.m_MinHoldValid = FALSE,
                                     !.o.m_histIIRValid = FALSE,
                                     !.o.m_IIRValid = FALSE ])

setRunningState(r, running) ==
    LET r1 == IF running /\ ~r.o.m_Running
              THEN [ setWaterfallSpan(r, r.o.wf_span) EXCEPT
                       !.o.m_MaxHoldValid = FALSE,
                       !.o.m_MinHoldValid = FALSE,
                       !.o.m_IIRValid = FALSE,
                       !.o.m_histIIRValid = FALSE,
                       !.o.m_histMaxIIR = FltMin ]
              ELSE r
    IN [r1 EXCEPT !.o.m_Running = running]

setFftAvg(r, avg) == [r EXCEPT !.o.m_alpha = avg]

setWaterfallMode(r, mode) == [r EXCEPT !.o.m_WaterfallMode = mode]

setFftRate(r, rate_hz) ==
    [r EXCEPT !.o = clearWaterfallBuf([ r.o EXCEPT
                                          !.fft_rate = rate_hz,
                                          !.wf_valid_since_ms = now ])]

enableMaxHold(r, enabled) ==
    [r EXCEPT !.o.m_MaxHoldActive = enabled, !.o.m_MaxHoldValid = FALSE]

enableMinHold(r, enabled) ==
    [r EXCEPT !.o.m_MinHoldActive = enabled, !.o.m_MinHoldValid = FALSE]

enablePeakDetect(r, enabled) == [r EXCEPT !.o.m_PeakDetectActive = enabled]

\* faulty variant: of two peaks at the same distance the later one wins
getNearestPeak_LastWins(q, px, py) ==
    LET cand == { x \in DOMAIN q.m_Peaks :
                    /\ Abs(x - px) <= PEAK_CLICK_MAX_H_DISTANCE
                    /\ Abs(q.m_Peaks[x] - py) <= PEAK_CLICK_MAX_V_DISTANCE }
        d(x) == (q.m_Peaks[x] - py) * (q.m_Peaks[x] - py) + (x - px) * (x - px)
    IN IF cand = {} THEN -1
       ELSE SetMax({x \in cand : \A z \in cand : d(x) <= d(z)})

\* getNearestPeak(pt): the column of the nearest peak inside both
\* tolerances, the lowest such column first; -1 if there is none
getNearestPeak(q, px, py) ==
    LET cand == { x \in DOMAIN q.m_Peaks :
                    /\ x >= px - PEAK_CLICK_MAX_H_DISTANCE
                    /\ x <= px + PEAK_CLICK_MAX_H_DISTANCE
                    /\ Abs(q.m_Peaks[x] - py) <= PEAK_CLICK_MAX_V_DISTANCE }
        d(x) == (q.m_Peaks[x] - py) * (q.m_Peaks[x] - py) + (x - px) * (x - px)
    IN IF cand = {} THEN -1
       ELSE SetMin({x \in cand : \A z \in cand : d(x) <= d(z)})

\* resizeEvent with widget size (width, height)
\* the rows of the waterfall image after resizeEvent: none, a blank image, or
\* the old rows rescaled to the new width over a blank image
ResizeRows(rows, oldWidth, w, wfHeight) ==
    LET blank == [x \in 0 .. (w - 1) |-> Background]
        scaled(row) == IF w = oldWidth THEN row
                       ELSE IF \A x \in DOMAIN row : row[x] = Background
                       THEN blank
                       ELSE [x \in 0 .. (w - 1) |-> Scaled]
    IN IF wfHeight = 0 THEN <<>>
       ELSE [ k \in 1 .. wfHeight |->
                IF k <= Len(rows) THEN scaled(rows[k]) ELSE blank ]

resizeEvent(r, width, height) ==
    LET q == r.o
        plotHeight == qRound(Percent2DScreen * height, 100)
        wfHeight == height - plotHeight
        q1 == [ q EXCEPT
                  !.m_Size = <<width, height>>,
                  !.m_OverlayPixmap = <<width, plotHeight>>,
                  !.m_2DPixmap = <<width, plotHeight>>,
                  !.m_WaterfallImage =
                      IF wfHeight = 0 THEN <<0, 0>> ELSE <<width, wfHeight>>,
                  !.m_WaterfallRows =
                      ResizeRows(@, q.m_WaterfallImage[1], width, wfHeight),
                  !.m_MaxHoldValid = FALSE,
                  !.m_MinHoldValid = FALSE,
                  !.m_histIIRValid = FALSE ]
        q2 == IF q.msec_per_wfline[1] > 0 THEN clearWaterfallBuf(q1) ELSE q1
    IN updateOverlay([r EXCEPT !.o = IF q.m_Size # <<width, height>>
                                     THEN q2 ELSE q])

\* setNewFftData(fftData, size)
setNewFftData(r, fftData, size) ==
    LET q == r.o
        resized == size # q.m_fftDataSize
        q1 == IF resized
              THEN [ q EXCEPT
                       !.m_fftData = ResizeVec(@, size),
                       !.m_fftIIR = ResizeVec(@, size),
                       !.m_MaxHoldValid = FALSE,
                       !.m_MinHoldValid = FALSE,
                       !.m_IIRValid = FALSE,
                       !.m_histIIRValid = FALSE,
                       !.m_histMaxIIR = FltMin,
                       !.m_fftDataSize = size ]
              ELSE q
        \* currentZoom / maxZoom = (4 * sf) / (size * span), in lowest terms
        zn == 4 * q1.m_SampleFreq
        zd == size * q1.m_Span
        gcd == Gcd(zn, zd)
        r1 == IF resized /\ zn > zd
              THEN zoomStepX([r EXCEPT !.o = q1], zn \div gcd, zd \div gcd,
                             qRound(Width(q1), 2))
              ELSE [r EXCEPT !.o = q1]
        q2 == r1.o
        data == [ i \in 0 .. (size - 1) |->
                    Normalize(fftData[i], size, q2.m_PlotScale,
                              q2.m_PlotPerHz, q2.m_SampleFreq) ]
        root == SmoothRoot(q2.fft_rate, q2.m_alpha)
        iir == UpdateIIR(q2.m_IIRValid, root, q2.m_fftIIR, data)
    IN DrawT([ r1 EXCEPT !.o = [ q2 EXCEPT !.m_fftData = data,
                                           !.m_fftIIR = iir,
                                           !.m_IIRValid = TRUE ] ], TRUE)

-----------------------------------------------------------------------------
(* Initial state: CPlotter::CPlotter *)

InitObject(g) ==
    [ m_MaxHoldActive |-> FALSE, m_MaxHoldValid |-> FALSE,
      m_MinHoldActive |-> FALSE, m_MinHoldValid |-> FALSE,
      m_IIRValid |-> FALSE, m_histIIRValid |-> FALSE,
      m_alpha |-> AlphaOne, m_histMaxIIR |-> FltMin,
      m_FftCenter |-> 0, m_CenterFreq |-> InitCenterFreq,
      m_DemodCenterFreq |-> InitCenterFreq,
      m_WaterfallMode |-> WATERFALL_MODE_MAX,
      m_PlotMode |-> PLOT_MODE_MAX,
      m_PlotScale |-> PLOT_SCALE_DBFS, m_PlotPerHz |-> FALSE,
      m_Span |-> InitSampleFreq, m_SampleFreq |-> InitSampleFreq,
      m_PandMaxdB |-> 0, m_WfMaxdB |-> 0,
      m_PandMindB |-> FFT_MAX_DB, m_WfMindB |-> FFT_MAX_DB,
      m_Running |-> FALSE, m_DrawOverlay |-> TRUE,
      m_2DPixmap |-> <<0, 0>>, m_OverlayPixmap |-> <<0, 0>>,
      m_WaterfallImage |-> <<0, 0>>, m_Size |-> <<0, 0>>,
      m_WaterfallRows |-> <<>>, infToInt |-> IntMin,
      m_ColorTbl |-> ColorTbl([i \in 0 .. 255 |-> InvalidColor], "gqrx"),
      m_Yzero |-> -1, m_Xzero |-> -1,
      tlast_wf_ms |-> 0, tlast_plot_drawn_ms |-> 0, tlast_wf_drawn_ms |-> 0,
      wf_valid_since_ms |-> 0, msec_per_wfline |-> <<0, 1>>,
      wf_epoch |-> 0, wf_count |-> 0, wf_avg_count |-> 0, wf_span |-> 0,
      fft_rate |-> InitFftRate,
      m_fftDataSize |-> 0,
      m_fftData |-> ResizeVec(<<>>, 0), m_fftIIR |-> ResizeVec(<<>>, 0),
      \* member arrays the constructor does not initialize
      m_wfMaxBuf |-> [x \in Cols |-> g], m_wfAvgBuf |-> [x \in Cols |-> g],
      m_fftMaxBuf |-> [x \in Cols |-> g], m_fftAvgBuf |-> [x \in Cols |-> g],
      m_fftMaxHoldBuf |-> [x \in Cols |-> g],
      m_fftMinHoldBuf |-> [x \in Cols |-> g],
      m_wfbuf |-> [x \in Cols |-> g],
      m_histogram |-> [den |-> 1, w |-> [c \in {} |-> g]],
      m_histIIR |-> [uninit |-> g, w |-> [c \in {} |-> g]],
      m_peakSmoothBuf |-> [x \in Cols |-> g],
      m_Peaks |-> [x \in {} |-> 0],
      m_PeakDetectActive |-> FALSE, tlast_peaks_ms |-> 0 ]

NoArg == 0

\* history of the last operation: what the IIR stage saw when it was called
Pre(q) == [ m_IIRValid |-> q.m_IIRValid, m_fftDataSize |-> q.m_fftDataSize,
            m_fftIIR |-> q.m_fftIIR, m_fftData |-> q.m_fftData,
            m_CenterFreq |-> q.m_CenterFreq, m_Running |-> q.m_Running,
            m_PlotMode |-> q.m_PlotMode, m_Peaks |-> q.m_Peaks,
            m_WaterfallMode |-> q.m_WaterfallMode, m_Size |-> q.m_Size ]

NoPre == [ m_IIRValid |-> FALSE, m_fftDataSize |-> 0,
           m_fftIIR |-> ResizeVec(<<>>, 0), m_fftData |-> ResizeVec(<<>>, 0),
           m_CenterFreq |-> InitCenterFreq, m_Running |-> FALSE,
           m_PlotMode |-> PLOT_MODE_MAX, m_Peaks |-> [x \in {} |-> 0],
           m_WaterfallMode |-> WATERFALL_MODE_MAX, m_Size |-> <<0, 0>> ]

Init ==
    /\ \E g \in UninitVals : p = InitObject(g)
    /\ now = T0
    /\ op = [name |-> "CPlotter", a |-> NoArg, b |-> NoArg, pre |-> NoPre]
    /\ passes = <<>>
    /\ nops = 0

-----------------------------------------------------------------------------
(* Actions: one call of a member function or event handler *)

Call(name, a, b, r) ==
    /\ p' = r.o
    /\ passes' = r.tr
    /\ op' = [name |-> name, a |-> a, b |-> b, pre |-> Pre(p)]
    /\ now' = now

SetPandapterRange ==
    \E d \in DbRanges :
        Call("setPandapterRange", d[1], d[2], setPandapterRange(Run(p), d[1], d[2]))

SetWaterfallRange ==
    \E d \in DbRanges :
        Call("setWaterfallRange", d[1], d[2], setWaterfallRange(Run(p), d[1], d[2]))

SetFftRange ==
    \E d \in DbRanges :
        Call("setFftRange", d[1], d[2], setFftRange(Run(p), d[1], d[2]))

\* press on the Y axis at y0, then move to py with the button held
MouseMoveYAxis ==
    /\ p.m_OverlayPixmap[2] > 0
    /\ \E y0 \in 0 .. (p.m_OverlayPixmap[2] - 1),
          py \in 0 .. (p.m_OverlayPixmap[2] - 1) :
          Call("mouseMoveYAxis", y0, py,
               mouseMoveYAxis([Run(p) EXCEPT !.o.m_Yzero = y0], py))

WheelFactors == {<<1, 2>>, <<2, 1>>}      \* zoom_fac = num / den

WheelYAxis ==
    /\ p.m_OverlayPixmap[2] > 0
    /\ \E py \in 0 .. (p.m_OverlayPixmap[2] - 1), z \in WheelFactors :
          Call("wheelYAxis", py, z, wheelYAxis(Run(p), py, z[1], z[2]))

WheelXAxis ==
    /\ p.m_OverlayPixmap[2] > 0
    /\ \E px \in {0, p.m_OverlayPixmap[1] \div 2}, z \in ZoomSteps :
          Call("wheelXAxis", px, z, wheelXAxis(Run(p), px, z[1], z[2]))

\* press on the X axis at x0, then move to px with the left button held
MouseMoveXAxis ==
    /\ p.m_OverlayPixmap[2] > 0
    /\ \E x0 \in {0, p.m_OverlayPixmap[1] \div 4},
          px \in {0, p.m_OverlayPixmap[1] \div 4} :
          Call("mouseMoveXAxis", x0, px,
               mouseMoveXAxis([Run(p) EXCEPT !.o.m_Xzero = x0], px))

ResizeEvent ==
    \E width \in Widths, height \in Heights :
        Call("resizeEvent", width, height, resizeEvent(Run(p), width, height))

SetNewFftData ==
    \E k \in 1 .. NumFrames, size \in FftSizes :
        Call("setNewFftData", k, size,
             setNewFftData(Run(p), Frame(k, size), size))

SetPlotMode ==
    \E mode \in PlotModes :
        Call("setPlotMode", mode, NoArg, setPlotMode(Run(p), mode))

SetPlotScale ==
    \E scale \in PlotScales, perHz \in BOOLEAN :
        Call("setPlotScale", scale, perHz, setPlotScale(Run(p), scale, perHz))

SetCenterFreq ==
    \E f \in CenterFreqs :
        Call("setCenterFreq", f, NoArg, setCenterFreq(Run(p), f))

SetRunningState ==
    \E running \in BOOLEAN :
        Call("setRunningState", running, NoArg,
             setRunningState(Run(p), running))

SetFftAvg ==
    \E avg \in AlphaVals :
        Call("setFftAvg", avg, NoArg, setFftAvg(Run(p), avg))

SetFftRate ==
    \E rate \in FftRates :
        Call("setFftRate", rate, NoArg, setFftRate(Run(p), rate))

EnableMaxHold ==
    \E enabled \in BOOLEAN :
        Call("enableMaxHold", enabled, NoArg, enableMaxHold(Run(p), enabled))

EnableMinHold ==
    \E enabled \in BOOLEAN :
        Call("enableMinHold", enabled, NoArg, enableMinHold(Run(p), enabled))

\* setNewFftData with a frame that is zero but for spikes
SetSpikeFftData ==
    \E c \in SpikeBins, size \in FftSizes :
        Call("setNewFftData", NumFrames + c, size,
             setNewFftData(Run(p), Frame(NumFrames + c, size), size))

EnablePeakDetect ==
    \E enabled \in BOOLEAN :
        Call("enablePeakDetect", enabled, NoArg,
             enablePeakDetect(Run(p), enabled))

\* a click at a point of the plot; b records the answer
GetNearestPeak ==
    /\ p.m_OverlayPixmap[2] > 0
    /\ \E px \in {0, p.m_OverlayPixmap[1] \div 2},
          py \in {0, p.m_OverlayPixmap[2] - 1} :
          Call("getNearestPeak", <<px, py>>, getNearestPeak(p, px, py), Run(p))

SetWaterfallSpan ==
    \E span_ms \in {0, WfSpanMs} :
        Call("setWaterfallSpan", span_ms, NoArg,
             setWaterfallSpan(Run(p), span_ms))

SetWfColormap ==
    \E cmap \in CmapNames :
        Call("setWfColormap", cmap, NoArg, setWfColormap(Run(p), cmap))

SetWaterfallMode ==
    \E mode \in WaterfallModes :
        Call("setWaterfallMode", mode, NoArg, setWaterfallMode(Run(p), mode))

\* the calls that bring up a running waterfall: one widget size, one span,
\* one frame size
WfResize ==
    \E height \in Heights :
        Call("resizeEvent", WfWidth, height,
             resizeEvent(Run(p), WfWidth, height))

WfSpan ==
    Call("setWaterfallSpan", WfSpanMs, NoArg,
         setWaterfallSpan(Run(p), WfSpanMs))

WfStart ==
    Call("setRunningState", TRUE, NoArg, setRunningState(Run(p), TRUE))

WfFrame ==
    \E k \in {1, NumFrames} :
        Call("setNewFftData", k, WfFftSize,
             setNewFftData(Run(p), Frame(k, WfFftSize), WfFftSize))

\* the clock advances between two calls
Tick ==
    /\ now + PLOTTER_UPDATE_LIMIT_MS <= MaxTime
    /\ now' = now + PLOTTER_UPDATE_LIMIT_MS
    /\ op' = [name |-> "tick", a |-> NoArg, b |-> NoArg, pre |-> Pre(p)]
    /\ passes' = <<>>
    /\ p' = p

-----------------------------------------------------------------------------
(* Specifications *)

Step(max) == nops < max /\ nops' = nops + 1

Next ==
    \/ Step(MaxOps) /\ SetPandapterRange
    \/ Step(MaxOps) /\ SetWaterfallRange
    \/ Step(MaxOps) /\ SetFftRange
    \/ Step(MaxOps) /\ MouseMoveYAxis
    \/ Step(MaxOps) /\ WheelYAxis
    \/ Step(MaxOps) /\ WheelXAxis
    \/ Step(MaxOps) /\ MouseMoveXAxis
    \/ Step(MaxOps) /\ ResizeEvent
    \/ Step(MaxOps) /\ SetNewFftData
    \/ Step(MaxOps) /\ SetPlotMode
    \/ Step(MaxOps) /\ SetPlotScale
    \/ Step(MaxOps) /\ SetCenterFreq
    \/ Step(MaxOps) /\ SetRunningState
    \/ Step(MaxOps) /\ SetFftAvg
    \/ Step(MaxOps) /\ SetFftRate
    \/ Step(MaxOps) /\ EnableMaxHold
    \/ Step(MaxOps) /\ EnableMinHold
    \/ Step(MaxOps) /\ Tick
    \/ Step(MaxOps) /\ SetSpikeFftData
    \/ Step(MaxOps) /\ EnablePeakDetect
    \/ Step(MaxOps) /\ GetNearestPeak
    \/ Step(MaxOps) /\ SetWaterfallSpan
    \/ Step(MaxOps) /\ SetWaterfallMode

Spec == Init /\ [][Next]_vars

\* the range setters, with frames drawn in every plot mode
NextSetters ==
    \/ Step(MaxOpsSetters) /\ ResizeEvent
    \/ Step(MaxOpsSetters) /\ SetPlotMode
    \/ Step(MaxOpsSetters) /\ SetNewFftData
    \/ Step(MaxOpsSetters) /\ SetPandapterRange
    \/ Step(MaxOpsSetters) /\ SetWaterfallRange

SpecSetters == Init /\ [][NextSetters]_vars

\* the operations that change the pandapter dB range
NextRange ==
    \/ Step(MaxOpsRange) /\ ResizeEvent
    \/ Step(MaxOpsRange) /\ SetPandapterRange
    \/ Step(MaxOpsRange) /\ SetFftRange
    \/ Step(MaxOpsRange) /\ MouseMoveYAxis
    \/ Step(MaxOpsRange) /\ WheelYAxis

SpecRange == Init /\ [][NextRange]_vars

\* the operations that feed or invalidate the IIR
NextIIR ==
    \/ Step(MaxOpsIIR) /\ SetNewFftData
    \/ Step(MaxOpsIIR) /\ SetPlotScale
    \/ Step(MaxOpsIIR) /\ SetCenterFreq
    \/ Step(MaxOpsIIR) /\ SetRunningState
    \/ Step(MaxOpsIIR) /\ SetFftAvg
    \/ Step(MaxOpsIIR) /\ SetFftRate

SpecIIR == Init /\ [][NextIIR]_vars

\* the operations that decide the bin-to-column geometry
NextAgg ==
    \/ Step(MaxOpsAgg) /\ ResizeEvent
    \/ Step(MaxOpsAgg) /\ SetNewFftData
    \/ Step(MaxOpsAgg) /\ WheelXAxis
    \/ Step(MaxOpsAgg) /\ MouseMoveXAxis
    \/ Step(MaxOpsAgg) /\ SetFftAvg

SpecAgg == Init /\ [][NextAgg]_vars

\* the operations that decide the hold buffers
NextHold ==
    \/ Step(MaxOpsHold) /\ ResizeEvent
    \/ Step(MaxOpsHold) /\ SetNewFftData
    \/ Step(MaxOpsHold) /\ SetPlotMode
    \/ Step(MaxOpsHold) /\ EnableMaxHold
    \/ Step(MaxOpsHold) /\ EnableMinHold
    \/ Step(MaxOpsHold) /\ SetFftAvg
    \/ Step(MaxOpsHold) /\ Tick

SpecHold == Init /\ [][NextHold]_vars

\* the operations that decide what a histogram pass sees
NextHist ==
    \/ Step(MaxOpsHist) /\ ResizeEvent
    \/ Step(MaxOpsHist) /\ SetNewFftData
    \/ Step(MaxOpsHist) /\ SetPlotMode
    \/ Step(MaxOpsHist) /\ WheelXAxis
    \/ Step(MaxOpsHist) /\ EnableMinHold

SpecHist == Init /\ [][NextHist]_vars

\* leaving and re-entering a plot mode
NextMode ==
    \/ Step(MaxOpsMode) /\ ResizeEvent
    \/ Step(MaxOpsMode) /\ SetNewFftData
    \/ Step(MaxOpsMode) /\ SetPlotMode

SpecMode == Init /\ [][NextMode]_vars

\* construction, with either result of converting a non-finite float
InitWf ==
    /\ \E g \in UninitVals, u \in InfToInts :
          p = [InitObject(g) EXCEPT !.infToInt = u]
    /\ now = T0
    /\ op = [name |-> "CPlotter", a |-> NoArg, b |-> NoArg, pre |-> NoPre]
    /\ passes = <<>>
    /\ nops = 0

\* a waterfall in auto or manual mode fed with frames at any time
NextWf ==
    \/ Step(MaxOpsWf) /\ WfResize
    \/ Step(MaxOpsWf) /\ WfSpan
    \/ Step(MaxOpsWf) /\ WfStart
    \/ Step(MaxOpsWf) /\ WfFrame
    \/ Step(MaxOpsWf) /\ Tick

SpecWf == InitWf /\ [][NextWf]_vars

\* a waterfall in manual or auto mode whose waterfall mode and frame rate
\* change between the frames
NextWfMode ==
    \/ Step(MaxOpsWfMode) /\ WfResize
    \/ Step(MaxOpsWfMode) /\ WfSpan
    \/ Step(MaxOpsWfMode) /\ WfStart
    \/ Step(MaxOpsWfMode) /\ WfFrame
    \/ Step(MaxOpsWfMode) /\ Tick
    \/ Step(MaxOpsWfMode) /\ SetWaterfallMode
    \/ Step(MaxOpsWfMode) /\ SetFftRate

SpecWfMode == InitWf /\ [][NextWfMode]_vars

\* the operations said to restart the row schedule, at any size and time
NextEpoch ==
    \/ Step(MaxOpsEpoch) /\ ResizeEvent
    \/ Step(MaxOpsEpoch) /\ SetWaterfallSpan
    \/ Step(MaxOpsEpoch) /\ SetFftRate
    \/ Step(MaxOpsEpoch) /\ WfStart
    \/ Step(MaxOpsEpoch) /\ Tick

SpecEpoch == InitWf /\ [][NextEpoch]_vars

\* a waterfall with fixed span and image height, set up before the first
\* frame, and frames at a regular period: one frame, one clock step
NextRows ==
    \/ Step(MaxOpsRows) /\ p.m_fftDataSize = 0 /\ WfResize
    \/ Step(MaxOpsRows) /\ p.m_fftDataSize = 0 /\ WfSpan
    \/ Step(MaxOpsRows) /\ p.m_fftDataSize = 0 /\ WfStart
    \/ Step(MaxOpsRows) /\ op.name # "setNewFftData" /\ WfFrame
    \/ Step(MaxOpsRows) /\ op.name = "setNewFftData" /\ Tick

SpecRows == InitWf /\ [][NextRows]_vars

\* the operations that decide the peak set
NextPeaks ==
    \/ Step(MaxOpsPeaks) /\ ResizeEvent
    \/ Step(MaxOpsPeaks) /\ SetSpikeFftData
    \/ Step(MaxOpsPeaks) /\ EnablePeakDetect
    \/ Step(MaxOpsPeaks) /\ GetNearestPeak
    \/ Step(MaxOpsPeaks) /\ Tick

SpecPeaks == Init /\ [][NextPeaks]_vars

\* one detection pass over a synthetic source of n columns: baseline b, one
\* spike of 10 * b at column c, the smoothing buffer never written before
InitSpike ==
    /\ \E g \in UninitFloats : p = InitObject(g)
    /\ now = T0
    /\ \E b \in 1 .. MaxBaseline, n \in 3 .. MAX_SCREENSIZE :
          \E c \in PEAK_WINDOW_HALF_WIDTH .. (n - 1 - PEAK_WINDOW_HALF_WIDTH) :
              op = [name |-> "spike", a |-> <<b, c, n>>, b |-> NoArg,
                    pre |-> NoPre]
    /\ passes = <<>>
    /\ nops = 0

SpikeSource(b, c) == [x \in Cols |-> IF x = c THEN 10 * b ELSE b]

DetectOnSpike ==
    /\ op.name = "spike"
    /\ LET det == DetectPeaks(p, SpikeSource(op.a[1], op.a[2]), 0, op.a[3])
       IN /\ p' = [p EXCEPT !.m_Peaks = det.m_Peaks,
                            !.m_peakSmoothBuf = det.m_peakSmoothBuf]
          /\ op' = [op EXCEPT !.name = "detectPeaks"]
    /\ UNCHANGED <<now, passes, nops>>

SpecSpike == InitSpike /\ [][DetectOnSpike]_vars

\* one detection pass over a synthetic source of n columns: baseline b, a
\* spike of 10 * b at column c1 and a hump of 10 * b over the three columns
\* from c2 on
HumpWidth == 3

InitSource ==
    /\ \E g \in UninitFloats : p = InitObject(g)
    /\ now = T0
    /\ \E b \in 1 .. 2, n \in {MAX_SCREENSIZE - 2, MAX_SCREENSIZE} :
          \E c1 \in 1 .. (n - 2), c2 \in 1 .. (n - 1 - HumpWidth) :
              op = [name |-> "source", a |-> <<b, c1, c2, n>>, b |-> NoArg,
                    pre |-> NoPre]
    /\ passes = <<>>
    /\ nops = 0

HumpSource(b, c1, c2) ==
    [x \in Cols |-> IF x = c1 \/ (c2 <= x /\ x < c2 + HumpWidth)
                    THEN 10 * b ELSE b]

DetectOnSource ==
    /\ op.name = "source"
    /\ LET det == DetectPeaks(p, HumpSource(op.a[1], op.a[2], op.a[3]),
                              0, op.a[4])
       IN /\ p' = [p EXCEPT !.m_Peaks = det.m_Peaks,
                            !.m_peakSmoothBuf = det.m_peakSmoothBuf]
          /\ op' = [op EXCEPT !.name = "detectSource"]
    /\ UNCHANGED <<now, passes, nops>>

SpecSource == InitSource /\ [][DetectOnSource]_vars

\* getNearestPeak on every peak set over a few columns and rows
MaxNearCol == 4
MaxNearRow == 3

InitNearest ==
    /\ \E g \in UninitVals, S \in SUBSET (0 .. MaxNearCol) :
          \E peaks \in [S -> 0 .. MaxNearRow] :
              p = [InitObject(g) EXCEPT !.m_Peaks = peaks]
    /\ now = T0
    /\ op = [name |-> "peaks", a |-> NoArg, b |-> NoArg, pre |-> NoPre]
    /\ passes = <<>>
    /\ nops = 0

NearestOnPeaks ==
    /\ op.name = "peaks"
    /\ \E px \in 0 .. MaxNearCol, py \in 0 .. MaxNearRow :
          Call("getNearestPeak", <<px, py>>, getNearestPeak(p, px, py), Run(p))
    /\ UNCHANGED nops

SpecNearest == InitNearest /\ [][NearestOnPeaks]_vars

\* the colour index of a waterfall value, for the ranges of setWaterfallRange
ColourOfValue ==
    /\ \E v \in ColourVals :
          op' = [name |-> "WfColorIndex", a |-> v, b |-> WfColorIndex(p, v),
                 pre |-> Pre(p)]
    /\ UNCHANGED <<p, now, passes>>

NextColour ==
    \/ Step(MaxOpsColour) /\ SetWaterfallRange
    \/ Step(MaxOpsColour) /\ ColourOfValue

SpecColour == InitWf /\ [][NextColour]_vars

\* colour maps set one after the other
NextCmap == Step(MaxOpsCmap) /\ SetWfColormap

SpecCmap == Init /\ [][NextCmap]_vars

\* roundFreq as a function of the frequency and the resolution
InitRoundFreq ==
    /\ p = InitObject(0)
    /\ now = T0
    /\ \E freq \in (-MaxRoundFreq) .. MaxRoundFreq, res \in 1 .. MaxResolution :
          op = [name |-> "freq", a |-> <<freq, res>>, b |-> NoArg, pre |-> NoPre]
    /\ passes = <<>>
    /\ nops = 0

ComputeRoundFreq ==
    /\ op.name = "freq"
    /\ op' = [op EXCEPT !.name = "roundFreq",
                        !.b = roundFreq(op.a[1], op.a[2])]
    /\ UNCHANGED <<p, now, passes, nops>>

SpecRoundFreq == InitRoundFreq /\ [][ComputeRoundFreq]_vars

\* histBinsDisplayed as a function of the number of displayed bins
InitHistBins ==
    /\ p = InitObject(0)
    /\ now = T0
    /\ \E n \in 0 .. MaxNumBins :
          op = [name |-> "numBins", a |-> n, b |-> NoArg, pre |-> NoPre]
    /\ passes = <<>>
    /\ nops = 0

ComputeHistBins ==
    /\ op.name = "numBins"
    /\ op' = [op EXCEPT !.name = "histBinsDisplayed",
                        !.b = HistBinsDisplayed(op.a)]
    /\ UNCHANGED <<p, now, passes, nops>>

SpecHistBins == InitHistBins /\ [][ComputeHistBins]_vars

-----------------------------------------------------------------------------
(* Properties: dB range *)

Rejected(min, max) ==
    min < -160 \/ min > 30 \/ max < -160 \/ max > 30 \/ max < min + 2

\* C1: a setPandapterRange or setWaterfallRange call whose range has
\* min < -160, min > 30, max < -160, max > 30 or max < min + 2 leaves every
\* field of the object as it was (histogram-IIR validity included) and draws
\* nothing; a call whose range passes the test stores min and max unchanged.
C1_RangeSetters ==
    [][ op'.name \in {"setPandapterRange", "setWaterfallRange"} =>
          IF Rejected(op'.a, op'.b)
          THEN p' = p /\ passes' = <<>>
          ELSE IF op'.name = "setPandapterRange"
               THEN p'.m_PandMindB = op'.a /\ p'.m_PandMaxdB = op'.b
               ELSE p'.m_WfMindB = op'.a /\ p'.m_WfMaxdB = op'.b ]_vars

\* a too narrow range was rejected while the histogram IIR was valid
C1_Witness ==
    /\ op.name = "setPandapterRange"
    /\ Rejected(op.a, op.b)
    /\ op.b = op.a + 1
    /\ p.m_histIIRValid

\* C2: in every reachable state, the state right after construction
\* included, the pandapter range satisfies -160 <= min, max <= 30 and
\* max >= min + 2.
C2_PandRangeInvariant ==
    /\ -160 <= p.m_PandMindB
    /\ p.m_PandMaxdB <= 30
    /\ p.m_PandMaxdB >= p.m_PandMindB + 2

-----------------------------------------------------------------------------
(* Properties: IIR smoothing *)

IsFrame == op.name = "setNewFftData"

\* the IIR stage of the last setNewFftData call started from a valid IIR
PreValid == op.pre.m_IIRValid /\ op.pre.m_fftDataSize = op.b

CurrentRoot == SmoothRoot(p.fft_rate, p.m_alpha)

\* the last operation was one of the resets that invalidate the IIR
IsReset ==
    \/ op.name = "setPlotScale"
    \/ op.name = "setCenterFreq" /\ op.a # op.pre.m_CenterFreq
    \/ op.name = "setRunningState" /\ op.a /\ ~op.pre.m_Running

\* C3: the IIR is invalid before the first frame and after setPlotScale,
\* setCenterFreq to a different frequency and setRunningState(true) from
\* stopped; after every setNewFftData call it is marked valid; when it was
\* invalid at the start of the call, or the frame size changed, the IIR
\* array equals the normalized raw frame element for element, whatever the
\* previous IIR contents and the averaging value.
C3_InvalidIIRTakesFrame ==
    /\ (op.name = "CPlotter" \/ IsReset) => ~p.m_IIRValid
    /\ IsFrame =>
          /\ p.m_IIRValid
          /\ ~PreValid =>
                /\ DOMAIN p.m_fftIIR = 0 .. (op.b - 1)
                /\ \A i \in 0 .. (op.b - 1) :
                      p.m_fftIIR[i] =
                          Normalize(FrameVal(op.a, i), op.b, p.m_PlotScale,
                                    p.m_PlotPerHz, p.m_SampleFreq)

\* after a reset, a frame of the same size arrived with smoothing on and
\* IIR contents that differ from the new frame
C3_Witness ==
    /\ IsFrame
    /\ ~op.pre.m_IIRValid
    /\ op.pre.m_fftDataSize = op.b
    /\ CurrentRoot > 1
    /\ \E i \in 0 .. (op.pre.m_fftDataSize - 1) :
          i < op.b /\ op.pre.m_fftIIR[i] # p.m_fftIIR[i]

\* C4: with smoothing exponent a = 1 the IIR after every setNewFftData call
\* equals the normalized raw frame of that call, and the copy that replaces
\* the recursive update gives what iir * (raw / iir) ^ 1 would give.
C4_NoSmoothingCopies ==
    (IsFrame /\ CurrentRoot = 1) =>
        /\ p.m_fftIIR = p.m_fftData
        /\ PreValid =>
              \A i \in 0 .. (op.b - 1) :
                  p.m_fftIIR[i] = IirUpdate(op.pre.m_fftIIR[i], p.m_fftData[i], 1)

\* with averaging 1.0, a frame replaced a valid IIR holding another frame
C4_Witness ==
    /\ IsFrame
    /\ p.m_alpha = AlphaOne
    /\ PreValid
    /\ \E i \in 0 .. (op.b - 1) : op.pre.m_fftIIR[i] # p.m_fftIIR[i]

\* C5: with 0 < a < 1 (a = 1/q) and a valid IIR, a frame moves every bin
\* toward the raw value: the new value lies between the old one and the raw
\* one (no overshoot, the distance never grows), and it is
\* old^(1 - a) * raw^a rounded down, which multiplies the distance of the
\* logarithms by 1 - a.
C5_IIRConverges ==
    (IsFrame /\ PreValid /\ CurrentRoot > 1) =>
        \A i \in 0 .. (op.b - 1) :
            LET old == op.pre.m_fftIIR[i]
                raw == p.m_fftData[i]
                new == p.m_fftIIR[i]
                q == CurrentRoot
            IN /\ Min(old, raw) <= new
               /\ new <= Max(old, raw)
               /\ Abs(raw - new) <= Abs(raw - old)
               /\ Pow(new, q) <= Pow(old, q - 1) * raw
               /\ Pow(old, q - 1) * raw < Pow(new + 1, q)

\* a bin moved strictly between its old value and the raw value
C5_Witness ==
    /\ IsFrame /\ PreValid /\ CurrentRoot > 1
    /\ \E i \in 0 .. (op.b - 1) :
          \/ op.pre.m_fftIIR[i] < p.m_fftIIR[i] /\ p.m_fftIIR[i] < p.m_fftData[i]
          \/ op.pre.m_fftIIR[i] > p.m_fftIIR[i] /\ p.m_fftIIR[i] > p.m_fftData[i]

-----------------------------------------------------------------------------
(* Properties: bin aggregation *)

PassIds == 1 .. Len(passes)

PassGeo(k) == Geo(passes[k].pre)

OverPasses == {k \in PassIds : PassGeo(k).numBins >= PassGeo(k).w}

UnderPasses == {k \in PassIds : PassGeo(k).numBins < PassGeo(k).w}

\* the bins of [minbin, maxbin] that the bin-to-column mapping assigns to c
BinsOf(g, c) ==
    {i \in g.minbin .. g.maxbin : qRound((i - g.startBin) * g.xsN, g.xsD) = c}

\* max and mean of vec over the bins S, floored like the program's outputs
TrueMax(vec, S) == Max(SetMax({vec[i] : i \in S}), FltMin)

TrueAvg(vec, S) == Max(SetSum(vec, S) \div Cardinality(S), FltMin)

\* C6: in the oversampled regime one draw pass writes every pixel column x
\* with xmin <= x < xmax, whatever the frame size, span, centre and width.
C6_NoColumnSkipped ==
    \A k \in OverPasses :
        \A x \in PassGeo(k).xmin .. (PassGeo(k).xmax - 1) : x \in passes[k].wr

\* C7: in the oversampled regime, for every column written by a pass, the
\* raw max is the maximum of the raw frame over exactly the bins of
\* [minbin, maxbin] mapped to that column (the last bin included), the raw
\* average is their mean, max >= avg, and the same holds for the IIR.
C7_ColumnStatistics ==
    \A k \in OverPasses :
        LET g == PassGeo(k)
            pre == passes[k].pre
            post == passes[k].post
        IN \A c \in passes[k].wr \cap Cols :
              LET S == BinsOf(g, c)
              IN /\ S # {}
                 /\ post.m_wfMaxBuf[c] = TrueMax(pre.m_fftData, S)
                 /\ post.m_wfAvgBuf[c] = TrueAvg(pre.m_fftData, S)
                 /\ post.m_fftMaxBuf[c] = TrueMax(pre.m_fftIIR, S)
                 /\ post.m_fftAvgBuf[c] = TrueAvg(pre.m_fftIIR, S)
                 /\ post.m_wfMaxBuf[c] >= post.m_wfAvgBuf[c]
                 /\ post.m_fftMaxBuf[c] >= post.m_fftAvgBuf[c]

\* j = round(x / xScale + fractional start bin) of object q, column x
SampledBin(q, x) ==
    LET size == q.m_fftDataSize
        sf == q.m_SampleFreq
        w == q.m_Size[1]
    IN (2 * x * size * q.m_Span
          + w * size * (2 * q.m_FftCenter - q.m_Span + sf) + sf * w)
       \div (2 * sf * w)

\* C8: in the undersampled regime, for every column x in [xmin, xmax) the
\* nearest bin j = round(x / xScale + fractional start bin) is a valid index
\* (0 <= j < frame size), raw max and raw avg both equal raw[j] and IIR max
\* and IIR avg both equal iir[j].
C8_NearestBinSampled ==
    \A k \in UnderPasses :
        LET g == PassGeo(k)
            pre == passes[k].pre
            post == passes[k].post
        IN \A x \in g.xmin .. (g.xmax - 1) :
              LET j == SampledBin(pre, x)
              IN /\ 0 <= j /\ j < pre.m_fftDataSize
                 /\ post.m_wfMaxBuf[x] = pre.m_fftData[j]
                 /\ post.m_wfAvgBuf[x] = pre.m_fftData[j]
                 /\ post.m_fftMaxBuf[x] = pre.m_fftIIR[j]
                 /\ post.m_fftAvgBuf[x] = pre.m_fftIIR[j]

\* an undersampled pass sampled a frame whose neighbouring bins differ and
\* whose IIR differs from the raw values
C8_Witness ==
    \E k \in UnderPasses :
        LET g == PassGeo(k)
            pre == passes[k].pre
        IN /\ g.xmax - g.xmin >= 4
           /\ pre.m_fftIIR # pre.m_fftData
           /\ \E x \in g.xmin .. (g.xmax - 2) :
                 /\ passes[k].post.m_wfMaxBuf[x] # passes[k].post.m_wfMaxBuf[x + 1]
                 /\ passes[k].post.m_wfMaxBuf[x] # passes[k].post.m_fftMaxBuf[x]

-----------------------------------------------------------------------------
(* Properties: max / min hold *)

\* the reference values of column c after pass k
PeakReference(k, c) ==
    IF passes[k].pre.m_PlotMode = PLOT_MODE_AVG
    THEN passes[k].post.m_fftAvgBuf[c] ELSE passes[k].post.m_fftMaxBuf[c]

MinReference(k, c) ==
    IF passes[k].pre.m_PlotMode = PLOT_MODE_MAX
    THEN passes[k].post.m_fftMaxBuf[c] ELSE passes[k].post.m_fftAvgBuf[c]

\* C9: for every column written in a pass, in both regimes: the max hold
\* becomes the reference if the max-hold flag was invalid, else
\* max(previous hold, reference); the min hold becomes the reference if the
\* min-hold flag was invalid, else min(previous hold, reference).  The
\* max-hold reference is the IIR average in average mode and the IIR max in
\* every other mode; the min-hold reference is the IIR max in max mode and
\* the IIR average in every other mode.
C9_HoldUpdateRule ==
    \A k \in PassIds :
        LET pre == passes[k].pre
            post == passes[k].post
        IN \A c \in passes[k].wr \cap Cols :
              /\ post.m_fftMaxHoldBuf[c] =
                    IF pre.m_MaxHoldValid
                    THEN Max(pre.m_fftMaxHoldBuf[c], PeakReference(k, c))
                    ELSE PeakReference(k, c)
              /\ post.m_fftMinHoldBuf[c] =
                    IF pre.m_MinHoldValid
                    THEN Min(pre.m_fftMinHoldBuf[c], MinReference(k, c))
                    ELSE MinReference(k, c)

\* in average mode a valid max hold kept a value above the new reference in
\* a column whose IIR average and IIR max differ
C9_Witness ==
    \E k \in PassIds :
        /\ passes[k].pre.m_PlotMode = PLOT_MODE_AVG
        /\ passes[k].pre.m_MaxHoldValid
        /\ \E c \in passes[k].wr \cap Cols :
              /\ passes[k].post.m_fftAvgBuf[c] # passes[k].post.m_fftMaxBuf[c]
              /\ passes[k].post.m_fftMaxHoldBuf[c] > PeakReference(k, c)

\* C10: after any draw pass that aggregates a frame (frame size > 0) both
\* the max-hold and the min-hold validity flags are true, in the oversampled
\* and in the undersampled regime, whether or not the plot is redrawn and
\* whether or not the hold displays are enabled.
C10_HoldsValidAfterPass ==
    \A k \in PassIds :
        passes[k].post.m_MaxHoldValid /\ passes[k].post.m_MinHoldValid

\* the reference values of the current frame at column c after pass k are
\* its IIR average and its IIR max
\* C11: at the end of every draw pass after which both hold flags are valid,
\* for every column written in that pass, the min hold is at most, and the
\* max hold at least, both the IIR average and the IIR max of that column.
C11_HoldsBracketReferences ==
    \A k \in PassIds :
        LET post == passes[k].post
        IN (post.m_MaxHoldValid /\ post.m_MinHoldValid) =>
              \A c \in passes[k].wr \cap Cols :
                  /\ post.m_fftMinHoldBuf[c] <= post.m_fftAvgBuf[c]
                  /\ post.m_fftMinHoldBuf[c] <= post.m_fftMaxBuf[c]
                  /\ post.m_fftAvgBuf[c] <= post.m_fftMaxHoldBuf[c]
                  /\ post.m_fftMaxBuf[c] <= post.m_fftMaxHoldBuf[c]

-----------------------------------------------------------------------------
(* Properties: order of the stages of one frame *)

\* the array vec holds the normalized input frame number k of size size
HoldsFrame(vec, k, size, q) ==
    /\ DOMAIN vec = 0 .. (size - 1)
    /\ \A i \in 0 .. (size - 1) :
          vec[i] = Normalize(FrameVal(k, i), size, q.m_PlotScale,
                             q.m_PlotPerHz, q.m_SampleFreq)

\* C14: every aggregation pass (frame size > 0) reads a raw array that holds
\* one complete normalized frame of the current frame size and an IIR array
\* of that size made of normalized values: no pass runs between the resize
\* of the arrays and the end of normalization and IIR update.
C14_PassReadsCompleteFrame ==
    \A k \in PassIds :
        LET pre == passes[k].pre
        IN /\ \E n \in 1 .. NumFrames :
                 HoldsFrame(pre.m_fftData, n, pre.m_fftDataSize, pre)
           /\ DOMAIN pre.m_fftIIR = 0 .. (pre.m_fftDataSize - 1)
           /\ \A i \in DOMAIN pre.m_fftIIR : pre.m_fftIIR[i] >= DataFMin

\* the pass of the last setNewFftData call that aggregated the new frame
FramePass == passes[Len(passes)]

\* C15: for every setNewFftData call the IIR is updated, the new frame is
\* aggregated into the per-column buffers and the hold values are updated,
\* with the plot redraw gate open or closed; a closed gate leaves the time
\* of the last plot draw unchanged, an open gate sets it to the current time.
C15_NumericsIgnoreGate ==
    IsFrame =>
        /\ Len(passes) >= 1
        /\ FramePass.newData
        /\ HoldsFrame(FramePass.pre.m_fftData, op.a, op.b, p)
        /\ p.m_IIRValid
        /\ \A i \in 0 .. (op.b - 1) :
              p.m_fftIIR[i] =
                  IF PreValid /\ CurrentRoot > 1
                  THEN IirUpdate(op.pre.m_fftIIR[i], p.m_fftData[i], CurrentRoot)
                  ELSE p.m_fftData[i]
        /\ LET pre == FramePass.pre
               g == Geo(pre)
               gateOpen == /\ PlotterVisible(pre)
                           /\ now >= pre.tlast_plot_drawn_ms
                                       + PLOTTER_UPDATE_LIMIT_MS
           IN /\ ~Oversampled(g) =>
                    /\ FramePass.wr = {x \in Cols : g.xmin <= x /\ x < g.xmax}
                    /\ \A x \in FramePass.wr :
                          /\ p.m_wfMaxBuf[x] = p.m_fftData[SampledBin(pre, x)]
                          /\ p.m_fftMaxBuf[x] = p.m_fftIIR[SampledBin(pre, x)]
              /\ Oversampled(g) =>
                    \A c \in FramePass.wr \cap Cols :
                        /\ p.m_wfMaxBuf[c] >= FltMin
                        /\ \E i \in g.minbin .. g.maxbin :
                              /\ BinX(g, i) = c
                              /\ p.m_wfMaxBuf[c] >= p.m_fftData[i]
                              /\ p.m_fftMaxBuf[c] >= p.m_fftIIR[i]
              /\ \A c \in FramePass.wr \cap Cols :
                    /\ p.m_fftMaxHoldBuf[c] =
                          IF pre.m_MaxHoldValid
                          THEN Max(pre.m_fftMaxHoldBuf[c],
                                   PeakReference(Len(passes), c))
                          ELSE PeakReference(Len(passes), c)
                    /\ p.m_fftMinHoldBuf[c] =
                          IF pre.m_MinHoldValid
                          THEN Min(pre.m_fftMinHoldBuf[c],
                                   MinReference(Len(passes), c))
                          ELSE MinReference(Len(passes), c)
              /\ p.tlast_plot_drawn_ms =
                    IF gateOpen THEN now ELSE pre.tlast_plot_drawn_ms

\* a frame arrived while the gate was closed: its pass changed the IIR, a
\* column buffer and a valid max hold
C15_Witness ==
    /\ IsFrame
    /\ PlotterVisible(p)
    /\ now < FramePass.pre.tlast_plot_drawn_ms + PLOTTER_UPDATE_LIMIT_MS
    /\ PreValid
    /\ op.pre.m_fftIIR # p.m_fftIIR
    /\ FramePass.pre.m_MaxHoldValid
    /\ \E c \in FramePass.wr \cap Cols :
          /\ FramePass.pre.m_fftMaxBuf[c] # p.m_fftMaxBuf[c]
          /\ FramePass.pre.m_fftMaxHoldBuf[c] # p.m_fftMaxHoldBuf[c]

-----------------------------------------------------------------------------
(* Properties: buffer indices, frame-size change *)

\* the pass k accumulated a histogram
HistPass(k) == DoHistogram(passes[k].pre, passes[k].newData)

\* C12: every index used to write the per-column buffers in a draw pass,
\* and every column index used to write the histogram, is a screen column:
\* 0 <= index < pixel width.
C12_ColumnIndicesInWidth ==
    \A k \in PassIds :
        /\ \A c \in passes[k].wr : 0 <= c /\ c < PassGeo(k).w
        /\ HistPass(k) =>
              \A c \in DOMAIN passes[k].post.m_histogram.w :
                  0 <= c[1] /\ c[1] < PassGeo(k).w

\* C13: when setNewFftData is called with a size different from the previous
\* frame's, the max-hold, min-hold and histogram-IIR flags are invalid when
\* the new frame is aggregated and the IIR is the copy of the new frame, so
\* every written max-hold and min-hold column equals the new frame's own
\* reference value; also when the call zooms out automatically.
C13_SizeChangeStartsAfresh ==
    (IsFrame /\ op.pre.m_fftDataSize # op.b) =>
        /\ ~FramePass.pre.m_MaxHoldValid
        /\ ~FramePass.pre.m_MinHoldValid
        /\ ~FramePass.pre.m_histIIRValid
        /\ p.m_fftIIR = p.m_fftData
        /\ \A c \in FramePass.wr \cap Cols :
              /\ p.m_fftMaxHoldBuf[c] = PeakReference(Len(passes), c)
              /\ p.m_fftMinHoldBuf[c] = MinReference(Len(passes), c)

-----------------------------------------------------------------------------
(* Properties: histogram *)

\* the vertical bin position of value v in object q lies strictly inside
\* (0, H)
InHistRange(q, H, v) ==
    /\ v > 0
    /\ q.m_PandMaxdB * DbDen - PowerDb(v) > 0
    /\ q.m_PandMaxdB * DbDen - PowerDb(v)
          < Abs(q.m_PandMaxdB - q.m_PandMindB) * DbDen

RECURSIVE SumWeights(_, _)
SumWeights(adds, n) ==
    IF n = 0 THEN 0 ELSE adds[n].w + SumWeights(adds, n - 1)

\* the additions of one sample: none if the sample is out of range, else two
\* or four non-negative weights that sum to one histWeight, in valid rows
AddsConserve(adds, inRange, den, H) ==
    /\ ~inRange => adds = <<>>
    /\ inRange =>
          /\ Len(adds) \in {2, 4}
          /\ SumWeights(adds, Len(adds)) = den
          /\ \A n \in DOMAIN adds :
                adds[n].w >= 0 /\ adds[n].y >= 0 /\ adds[n].y < H

\* the samples of pass k: bins when oversampled, columns when undersampled
HistSamples(k) ==
    IF Oversampled(PassGeo(k))
    THEN PassGeo(k).minbin .. PassGeo(k).maxbin
    ELSE PassGeo(k).xmin .. (PassGeo(k).xmax - 1)

HistSampleValue(k, s) ==
    IF Oversampled(PassGeo(k)) THEN passes[k].pre.m_fftData[s]
    ELSE passes[k].pre.m_fftData[SampledBin(passes[k].pre, s)]

HistGridTotal(h) == SetSum(h, DOMAIN h)

\* C16: in one histogram pass each sample whose vertical position lies
\* strictly inside (0, histBinsDisplayed) adds exactly histWeight in two or
\* four non-negative parts, each other sample adds nothing, the grid total
\* is (number of in-range samples) x histWeight, and every cell written has
\* a vertical index in [0, histBinsDisplayed).
C16_HistogramWeightConserved ==
    \A k \in PassIds :
        HistPass(k) =>
            LET pre == passes[k].pre
                g == PassGeo(k)
                H == HistBinsDisplayed(g.numBins)
                grid == passes[k].post.m_histogram
                inRange == {s \in HistSamples(k) :
                               InHistRange(pre, H, HistSampleValue(k, s))}
            IN /\ \A s \in HistSamples(k) :
                     AddsConserve(IF Oversampled(g) THEN OverAdds(pre, g, H, s)
                                  ELSE UnderAdds(pre, g, H, s),
                                  s \in inRange, grid.den, H)
               /\ HistGridTotal(grid.w) = Cardinality(inRange) * grid.den
               /\ \A c \in DOMAIN grid.w : c[2] >= 0 /\ c[2] < H

\* an oversampled histogram pass spread an in-range sample over four
\* different cells with positive weights
C16_Witness ==
    \E k \in PassIds :
        /\ HistPass(k)
        /\ Oversampled(PassGeo(k))
        /\ \E s \in HistSamples(k) :
              LET a == OverAdds(passes[k].pre, PassGeo(k),
                                HistBinsDisplayed(PassGeo(k).numBins), s)
              IN /\ Len(a) = 4
                 /\ \A n \in 1 .. 4 : a[n].w > 0
                 /\ a[1].x # a[3].x /\ a[1].y # a[2].y

\* C17: the number of displayed histogram bins is
\* min(MAX_HISTOGRAM_SIZE, max(32, round(32 * numBins / 2048))): between 32
\* and MAX_HISTOGRAM_SIZE, and not larger for fewer displayed bins.
C17_HistBinsBounded ==
    op.name = "histBinsDisplayed" =>
        LET n == op.a
            r2 == 64 * n + 2048          \* 4096 * (32 * n / 2048 + 1/2)
        IN /\ 32 <= op.b /\ op.b <= MAX_HISTOGRAM_SIZE
           /\ r2 < 33 * 4096 => op.b = 32
           /\ r2 >= MAX_HISTOGRAM_SIZE * 4096 => op.b = MAX_HISTOGRAM_SIZE
           /\ (r2 >= 33 * 4096 /\ r2 < MAX_HISTOGRAM_SIZE * 4096) =>
                 op.b * 4096 <= r2 /\ r2 < (op.b + 1) * 4096
           /\ \A m \in Max(0, n - 64) .. n : HistBinsDisplayed(m) <= op.b

\* a bin count strictly between the limits, larger than for 64 bins fewer
C17_Witness ==
    /\ op.name = "histBinsDisplayed"
    /\ 32 < op.b /\ op.b < MAX_HISTOGRAM_SIZE
    /\ HistBinsDisplayed(op.a - 64) < op.b

\* C18: while the plot mode is not histogram no draw pass changes the
\* histogram grid, the histogram IIR grid, the smoothed histogram maximum or
\* the histogram-IIR flag; and when setPlotMode switches back to histogram
\* the histogram IIR is invalid for the first histogram pass that follows:
\* that pass runs inside the call, or the flag is invalid after the call.
C18_HistogramSkippedAndReset ==
    /\ \A k \in PassIds :
          passes[k].pre.m_PlotMode # PLOT_MODE_HISTOGRAM =>
              /\ passes[k].post.m_histogram = passes[k].pre.m_histogram
              /\ passes[k].post.m_histIIR = passes[k].pre.m_histIIR
              /\ passes[k].post.m_histMaxIIR = passes[k].pre.m_histMaxIIR
              /\ passes[k].post.m_histIIRValid = passes[k].pre.m_histIIRValid
    /\ ( /\ op.name = "setPlotMode"
         /\ op.a = PLOT_MODE_HISTOGRAM
         /\ op.pre.m_PlotMode # PLOT_MODE_HISTOGRAM ) =>
          \/ \E k \in PassIds : HistPass(k) /\ ~passes[k].pre.m_histIIRValid
          \/ ~p.m_histIIRValid

-----------------------------------------------------------------------------
(* Properties: peak detection *)

\* pass k is one in which the detection is due: frame data present, plot
\* gate open, detection enabled, period elapsed or overlay dirty
PassDetects(k) ==
    LET pre == passes[k].pre
    IN /\ pre.m_fftDataSize # 0
       /\ PlotterVisible(pre)
       /\ now >= pre.tlast_plot_drawn_ms + PLOTTER_UPDATE_LIMIT_MS
       /\ pre.m_PeakDetectActive
       /\ \/ now - pre.tlast_peaks_ms > PEAK_UPDATE_PERIOD
          \/ pre.m_DrawOverlay

\* column x of buf stands out of its neighbourhood of half width hw: no
\* neighbour is larger, it exceeds twice the mean (sum / div) and four times
\* the smallest neighbour
StandsOut(buf, x, hw, div) ==
    /\ buf[x] >= 0
    /\ \A j \in (-hw) .. hw : buf[x + j] <= buf[x]
    /\ div * buf[x] > 2 * SetSum(buf, (x - hw) .. (x + hw))
    /\ \E j \in (-hw) .. hw : 4 * buf[x + j] < buf[x]

\* x is a peak that the detection of pass k found: a narrow peak of the
\* detection source, or a wide peak of its smoothed curve
FoundInPass(k, x) ==
    LET post == passes[k].post
        g == Geo(passes[k].pre)
        pw == PEAK_WINDOW_HALF_WIDTH
    IN \/ /\ g.xmin + pw <= x /\ x < g.xmax - pw
          /\ StandsOut(PeakSource(post), x, pw, 2 * pw + 1)
       \/ /\ g.xmin + 5 * pw <= x /\ x < g.xmax - 5 * pw
          /\ StandsOut(post.m_peakSmoothBuf, x, 5 * pw, 10 * pw)

\* C19: the peak set changes only in a draw pass in which the plot gate is
\* open, peak detection is enabled and the period has elapsed or the overlay
\* is dirty; after such a pass every peak of the set was found in that pass
\* and the time of the detection is the time of the pass; every other pass
\* and every operation outside a pass leaves the set as it was, and
\* getNearestPeak answers with a column of the set or with -1.
C19_PeakSetChangesOnlyInDetection ==
    /\ op.name # "CPlotter" =>
          IF passes = <<>> THEN p.m_Peaks = op.pre.m_Peaks
          ELSE /\ passes[1].pre.m_Peaks = op.pre.m_Peaks
               /\ passes[Len(passes)].post.m_Peaks = p.m_Peaks
    /\ \A k \in 1 .. Len(passes) :
          /\ k > 1 => passes[k].pre.m_Peaks = passes[k - 1].post.m_Peaks
          /\ IF PassDetects(k)
             THEN /\ \A x \in DOMAIN passes[k].post.m_Peaks : FoundInPass(k, x)
                  /\ passes[k].post.tlast_peaks_ms = now
             ELSE /\ passes[k].post.m_Peaks = passes[k].pre.m_Peaks
                  /\ passes[k].post.tlast_peaks_ms
                        = passes[k].pre.tlast_peaks_ms
    /\ op.name = "getNearestPeak" =>
          /\ passes = <<>>
          /\ op.b \in DOMAIN p.m_Peaks \cup {-1}

\* a detection pass replaced a set that held a peak by a different set, and
\* an earlier pass of the same behaviour had found that peak
C19_Witness ==
    \E k \in 1 .. Len(passes) :
        /\ PassDetects(k)
        /\ DOMAIN passes[k].pre.m_Peaks # {}
        /\ DOMAIN passes[k].post.m_Peaks # DOMAIN passes[k].pre.m_Peaks

SourceNarrow ==
    LET src == HumpSource(op.a[1], op.a[2], op.a[3])
        pw == PEAK_WINDOW_HALF_WIDTH
    IN { x \in pw .. (op.a[4] - pw - 1) : StandsOut(src, x, pw, 2 * pw + 1) }

\* the peaks of the set that the second loop added
SourceWide == DOMAIN p.m_Peaks \ SourceNarrow

\* C21: after a detection pass every peak that the second loop added (a
\* wide peak) has no other peak of the set within PEAK_WINDOW_HALF_WIDTH
\* columns, and every narrow peak of the source is in the set.
C21_WidePeaksStandAlone ==
    op.name = "detectSource" =>
        /\ SourceNarrow \subseteq DOMAIN p.m_Peaks
        /\ \A x \in SourceWide :
              \A z \in DOMAIN p.m_Peaks \ {x} :
                  Abs(z - x) > PEAK_WINDOW_HALF_WIDTH

\* a pass that found a narrow peak and added a wide peak, reading no
\* negative smoothed value
C21_Witness ==
    /\ op.name = "detectSource"
    /\ SourceNarrow # {}
    /\ SourceWide # {}
    /\ \A x \in Cols : p.m_peakSmoothBuf[x] >= 0

\* peak x of the set is inside both tolerances of the point <<px, py>>
InTolerance(x, px, py) ==
    /\ Abs(x - px) <= PEAK_CLICK_MAX_H_DISTANCE
    /\ Abs(p.m_Peaks[x] - py) <= PEAK_CLICK_MAX_V_DISTANCE

SquaredDistance(x, px, py) ==
    (x - px) * (x - px) + (p.m_Peaks[x] - py) * (p.m_Peaks[x] - py)

\* C22: getNearestPeak(pt) answers -1 exactly when no peak of the set is
\* inside both tolerances; otherwise it answers the column of a peak inside
\* both tolerances at the least squared distance, the lowest such column if
\* several are at that distance; the peak set stays as it was.
C22_NearestPeakInTolerance ==
    op.name = "getNearestPeak" =>
        LET px == op.a[1]
            py == op.a[2]
            near == {x \in DOMAIN p.m_Peaks : InTolerance(x, px, py)}
        IN /\ p.m_Peaks = op.pre.m_Peaks
           /\ (op.b = -1) <=> (near = {})
           /\ op.b # -1 =>
                 /\ op.b \in near
                 /\ \A z \in near :
                       \/ SquaredDistance(op.b, px, py)
                              < SquaredDistance(z, px, py)
                       \/ /\ SquaredDistance(op.b, px, py)
                                = SquaredDistance(z, px, py)
                          /\ op.b <= z

\* an exact tie between two peaks inside the tolerances, with a third peak
\* outside them
C22_Witness ==
    /\ op.name = "getNearestPeak"
    /\ op.b # -1
    /\ \E z \in DOMAIN p.m_Peaks :
          /\ z > op.b
          /\ InTolerance(z, op.a[1], op.a[2])
          /\ SquaredDistance(z, op.a[1], op.a[2])
                = SquaredDistance(op.b, op.a[1], op.a[2])
    /\ \E z \in DOMAIN p.m_Peaks : ~InTolerance(z, op.a[1], op.a[2])

-----------------------------------------------------------------------------
(* Properties: waterfall *)

\* pass k takes part in the waterfall, in manual-span mode
WfManualPass(k) ==
    /\ DoWaterfall(passes[k].pre, passes[k].newData)
    /\ ManualSpan(passes[k].pre)

\* pass k emitted a row
WfEmitted(k) == passes[k].post.wf_count # passes[k].pre.wf_count

\* the displayed columns of pass k
WfCols(k) ==
    LET g == Geo(passes[k].pre) IN {x \in Cols : g.xmin <= x /\ x < g.xmax}

\* C25: in manual-span mode with waterfall mode MAX every frame is folded
\* into the accumulator at the displayed column itself, acc[ix] becoming
\* max(acc[ix], source[ix]) for every ix in [xmin, xmax), and a row emitted in
\* the pass shows at ix the colour of that maximum; so the row shows the
\* maximum over the frames folded since the accumulator was cleared.
C25_MaxRowIsColumnMaximum ==
    \A k \in 1 .. Len(passes) :
        (WfManualPass(k) /\ passes[k].pre.m_WaterfallMode = WATERFALL_MODE_MAX)
        => \A ix \in WfCols(k) :
              LET folded == Max(passes[k].pre.m_wfbuf[ix],
                                passes[k].post.m_wfMaxBuf[ix])
              IN IF WfEmitted(k)
                 THEN /\ passes[k].post.m_WaterfallRows[1][ix]
                            = WfColorIndex(passes[k].pre, folded)
                      /\ passes[k].post.m_wfbuf[ix] = 0
                 ELSE passes[k].post.m_wfbuf[ix] = folded

\* C29: a pass that emits a row moves every row of the waterfall image one
\* down, the last one out; the new row 0 is background outside [xmin, xmax)
\* and a colour-table entry inside, in auto mode that of the source value of
\* the column; the image keeps its width and height.
C29_RowsShiftDown ==
    \A k \in 1 .. Len(passes) :
        WfEmitted(k) =>
            LET old == passes[k].pre.m_WaterfallRows
                new == passes[k].post.m_WaterfallRows
                width == passes[k].pre.m_WaterfallImage[1]
            IN /\ passes[k].post.m_WaterfallImage
                     = passes[k].pre.m_WaterfallImage
               /\ Len(new) = Len(old)
               /\ Len(new) = passes[k].pre.m_WaterfallImage[2]
               /\ \A j \in 1 .. (Len(old) - 1) : new[j + 1] = old[j]
               /\ DOMAIN new[1] = 0 .. (width - 1)
               /\ \A x \in 0 .. (width - 1) :
                     IF x \in WfCols(k)
                     THEN /\ new[1][x] \in 0 .. 255
                          /\ ~ManualSpan(passes[k].pre) =>
                                new[1][x] = WfColorIndex(passes[k].pre,
                                                         WfSource(passes[k].post)[x])
                     ELSE new[1][x] = Background

\* a row is emitted onto an image whose rows 0 and 1 differ, so the shift
\* shows
C29_Witness ==
    \E k \in 1 .. Len(passes) :
        /\ WfEmitted(k)
        /\ passes[k].pre.m_WaterfallRows[1] # passes[k].pre.m_WaterfallRows[2]
        /\ passes[k].post.m_WaterfallRows[1] # passes[k].pre.m_WaterfallRows[1]

\* the time by which pass k is later than the time epoch + wf_count *
\* msec_per_wfline at which its next row falls due, times the denominator of
\* msec_per_wfline
WfLate(k) ==
    LET pre == passes[k].pre
    IN (now - pre.wf_epoch) * pre.msec_per_wfline[2]
         - pre.wf_count * pre.msec_per_wfline[1]

\* C23: in manual-span mode a row that is not the first after the timing
\* epoch is emitted no earlier than the per-row duration after the row
\* before it.
C23_RowsApartByRowDuration ==
    \A k \in 1 .. Len(passes) :
        (WfManualPass(k) /\ WfEmitted(k) /\ passes[k].pre.wf_count >= 1)
        => (now - passes[k].pre.tlast_wf_ms) * passes[k].pre.msec_per_wfline[2]
              >= passes[k].pre.msec_per_wfline[1]

\* C24: in manual-span mode with frames at a regular period, a frame emits
\* the next row (number wf_count + 1) exactly if its time is later than
\* epoch + wf_count * msec_per_wfline; it emits at most that one row, and the
\* row is at most one frame period late against that time.
C24_RowsFollowSchedule ==
    \A k \in 1 .. Len(passes) :
        WfManualPass(k) =>
            /\ WfEmitted(k) <=> WfLate(k) > 0
            /\ passes[k].post.wf_count
                  = passes[k].pre.wf_count + (IF WfEmitted(k) THEN 1 ELSE 0)
            /\ WfEmitted(k) =>
                  /\ WfLate(k) <= PLOTTER_UPDATE_LIMIT_MS
                                    * passes[k].pre.msec_per_wfline[2]
                  /\ passes[k].post.tlast_wf_ms = now

\* the second row after the epoch is emitted, less than a frame period late
C24_Witness ==
    \E k \in 1 .. Len(passes) :
        /\ WfManualPass(k)
        /\ WfEmitted(k)
        /\ passes[k].pre.wf_count = 1
        /\ WfLate(k) < PLOTTER_UPDATE_LIMIT_MS * passes[k].pre.msec_per_wfline[2]

\* every entry of the waterfall accumulator is zero
WfBufClear(q) == \A x \in Cols : q.m_wfbuf[x] = 0

\* the last operation was a resizeEvent that changed the widget size
SizeChanged == op.name = "resizeEvent" /\ op.pre.m_Size # p.m_Size

\* C26: wf_avg_count is the number of frames summed in the accumulator: it
\* is 0 when setWaterfallSpan, setFftRate or a resize has cleared the
\* accumulator, a frame summed in manual-span mode raises it by one, and a
\* row emission sets it to 0.
C26_CountIsFramesSummed ==
    /\ op.name \in {"setWaterfallSpan", "setFftRate"} => p.wf_avg_count = 0
    /\ (SizeChanged /\ ManualSpan(p)) => p.wf_avg_count = 0
    /\ \A k \in 1 .. Len(passes) :
          (WfManualPass(k)
             /\ passes[k].pre.m_WaterfallMode # WATERFALL_MODE_MAX)
          => passes[k].post.wf_avg_count
                = (IF WfEmitted(k) THEN 0 ELSE passes[k].pre.wf_avg_count + 1)

\* C27: a setWaterfallMode that changes the mode in manual-span mode leaves
\* the accumulator invalidated: all zero, with a frame count of 0.
C27_ModeChangeInvalidatesAccumulator ==
    (/\ op.name = "setWaterfallMode"
     /\ op.pre.m_WaterfallMode # p.m_WaterfallMode
     /\ ManualSpan(p))
    => (WfBufClear(p) /\ p.wf_avg_count = 0)

\* C28: after setWaterfallSpan, after setFftRate and after a resizeEvent that
\* changes the widget size the accumulator is all zero, wf_epoch is the time
\* of the call and wf_count is 0.
C28_ChangeRestartsSchedule ==
    (op.name \in {"setWaterfallSpan", "setFftRate"} \/ SizeChanged)
    => (WfBufClear(p) /\ p.wf_epoch = now /\ p.wf_count = 0)

\* the value v, a power, is at or below the dB level db
AtOrBelowDb(v, db) == v <= 0 \/ PowerDb(v) <= db * DbDen

\* the value v, a power, is at or above the dB level db
AtOrAboveDb(v, db) == v > 0 /\ PowerDb(v) >= db * DbDen

\* C30: with a waterfall range as setWaterfallRange leaves it (minimum
\* below maximum), the colour-table index of a waterfall value lies in
\* 0..255, is 255 for a value at or above the waterfall maximum, 0 for a value
\* at or below the waterfall minimum, and is non-decreasing in the value.
C30_ColourIndexFollowsValue ==
    (op.name = "WfColorIndex" /\ p.m_WfMindB < p.m_WfMaxdB)
    => /\ op.b \in 0 .. 255
       /\ AtOrAboveDb(op.a, p.m_WfMaxdB) => op.b = 255
       /\ AtOrBelowDb(op.a, p.m_WfMindB) => op.b = 0
       /\ \A w \in ColourVals : w <= op.a => WfColorIndex(p, w) <= op.b

-----------------------------------------------------------------------------
(* Properties: logarithm arguments *)

\* the object of pass k when its row is emitted: the buffers of the pass, the
\* accumulator with the frame of the pass folded in
WfAtEmission(k) ==
    WfAccumulate([ passes[k].post EXCEPT
                     !.m_wfbuf = passes[k].pre.m_wfbuf,
                     !.wf_avg_count = passes[k].pre.wf_avg_count ],
                 Geo(passes[k].pre))

\* C31: every stored raw sample is at least fmin (1e-20) after the
\* normalization, every aggregated column value of a pass is at least the
\* smallest positive float, and the value read from the waterfall accumulator
\* at a row emission in manual-span mode is positive for every column ix in
\* [xmin, xmax).
C31_LogArgumentsPositive ==
    /\ \A i \in DOMAIN p.m_fftData : p.m_fftData[i] >= DataFMin
    /\ \A k \in 1 .. Len(passes) :
          /\ \A x \in passes[k].wr :
                /\ passes[k].post.m_wfMaxBuf[x] >= FltMin
                /\ passes[k].post.m_wfAvgBuf[x] >= FltMin
                /\ passes[k].post.m_fftMaxBuf[x] >= FltMin
                /\ passes[k].post.m_fftAvgBuf[x] >= FltMin
          /\ (WfManualPass(k) /\ WfEmitted(k))
             => \A ix \in WfCols(k) : WfLineValue(WfAtEmission(k), ix) > 0

-----------------------------------------------------------------------------
(* Properties: colour maps *)

RecognizedCmaps ==
    { "gqrx", "turbo", "plasma", "whitehotcompressed", "whitehot", "blackhot",
      "viridis", "magma", "inferno", "grape" }

\* C32: after setWfColormap("whitehot") entry i is (i, i, i) for every i in
\* 0..255; after setWfColormap with a recognized name in any letter case the
\* table has the 256 entries 0..255, each with red, green and blue inside
\* 0..255; after setWfColormap("gqrx") the entries 0..19 are black and entry
\* 255 is (255, 255, 255).
C32_ColormapEntries ==
    op.name = "setWfColormap" =>
        /\ toLower(op.a) = "whitehot"
           => \A i \in 0 .. 255 : p.m_ColorTbl[i] = <<i, i, i>>
        /\ toLower(op.a) \in RecognizedCmaps
           => /\ DOMAIN p.m_ColorTbl = 0 .. 255
              /\ \A i \in 0 .. 255 : \A c \in 1 .. 3 :
                    p.m_ColorTbl[i][c] \in 0 .. 255
        /\ toLower(op.a) = "gqrx"
           => /\ \A i \in 0 .. 19 : p.m_ColorTbl[i] = <<0, 0, 0>>
              /\ p.m_ColorTbl[255] = <<255, 255, 255>>

\* "whitehot" in mixed case, set over the "viridis" map
C32_Witness ==
    /\ op.name = "setWfColormap"
    /\ op.a = "WhiteHot"
    /\ nops = 2
    /\ p.m_ColorTbl[200] = <<200, 200, 200>>

\* tables held before a call
PrevTables ==
    { ColorTbl([i \in 0 .. 255 |-> InvalidColor], cmap)
        : cmap \in {"whitehot", "blackhot"} }

\* C33: the table after setWfColormap(name) is the same whatever the table
\* before the call was, for every name, and a second call with the same name
\* leaves it as it is.
C33_ColormapDependsOnNameOnly ==
    op.name = "setWfColormap" =>
        /\ \A prev \in PrevTables : ColorTbl(prev, op.a) = p.m_ColorTbl
        /\ ColorTbl(p.m_ColorTbl, op.a) = p.m_ColorTbl

-----------------------------------------------------------------------------
(* Properties: waterfall span and running state *)

\* C34: whenever the waterfall image exists and the configured span is
\* greater than 0, msec_per_wfline is the configured span divided by the
\* height of the image.
C34_RowDurationIsSpanByHeight ==
    (~WaterfallIsNull(p) /\ p.wf_span > 0)
    => p.msec_per_wfline[1] * p.m_WaterfallImage[2]
          = p.wf_span * p.msec_per_wfline[2]

\* the waterfall state of an object: image rows, accumulator, frame counter,
\* row count and the timestamps of the last row
WfState(q) ==
    <<q.m_WaterfallRows, q.m_wfbuf, q.wf_avg_count, q.wf_count, q.tlast_wf_ms,
      q.tlast_wf_drawn_ms, q.wf_valid_since_ms>>

\* C35: a draw pass leaves the waterfall state as it was unless the
\* waterfall image exists, the plotter is running and the pass was triggered
\* by new data.
C35_WaterfallNeedsRunningAndData ==
    \A k \in 1 .. Len(passes) :
        (\/ passes[k].pre.m_WaterfallImage[1] = 0
         \/ passes[k].pre.m_WaterfallImage[2] = 0
         \/ ~passes[k].pre.m_Running
         \/ ~passes[k].newData)
        => WfState(passes[k].post) = WfState(passes[k].pre)

\* a redraw without new data of a running plotter whose accumulator holds a
\* folded frame
C35_Witness ==
    \E k \in 1 .. Len(passes) :
        /\ ~passes[k].newData
        /\ passes[k].pre.m_Running
        /\ passes[k].pre.m_WaterfallImage[2] > 0
        /\ \E x \in Cols : passes[k].pre.m_wfbuf[x] > 0
        /\ ManualSpan(passes[k].pre)

\* C36: setRunningState(true) on a stopped plotter leaves max hold, min
\* hold, IIR and histogram IIR invalid, the smoothed histogram maximum reset,
\* the waterfall accumulator cleared and the waterfall timing restarted
\* (wf_epoch = now, wf_count = 0, wf_valid_since_ms = now); every other
\* setRunningState call changes the running flag only.
C36_StartInvalidatesAndRestarts ==
    [][ op'.name = "setRunningState" =>
          IF op'.a /\ ~p.m_Running
          THEN /\ p'.m_Running
               /\ ~p'.m_MaxHoldValid /\ ~p'.m_MinHoldValid
               /\ ~p'.m_IIRValid /\ ~p'.m_histIIRValid
               /\ p'.m_histMaxIIR = FltMin
               /\ WfBufClear(p')
               /\ p'.wf_epoch = now' /\ p'.wf_count = 0
               /\ p'.wf_valid_since_ms = now'
          ELSE p' = [p EXCEPT !.m_Running = op'.a] ]_vars

-----------------------------------------------------------------------------
(* Properties: smoothing buffer *)

\* the peak set that the detection of the current state leaves when the
\* smoothing buffer holds g everywhere before it
PeaksOverContent(g) ==
    DetectPeaks([p EXCEPT !.m_peakSmoothBuf = [x \in DOMAIN @ |-> g]],
                SpikeSource(op.a[1], op.a[2]), 0, op.a[3]).m_Peaks

\* C37: the second detection loop reads only smoothed values that the first
\* loop of the same detection wrote: the peak set that a detection leaves is
\* the same whatever the smoothing buffer held before the detection.
C37_WidePeaksFromThisPassOnly ==
    op.name = "detectPeaks" =>
        \A g \in UninitFloats : PeaksOverContent(g) = p.m_Peaks

-----------------------------------------------------------------------------
(* Properties: roundFreq *)

\* C38: roundFreq(freq, resolution) is a multiple of resolution at most
\* resolution / 2 away from freq, for every integer freq and every
\* resolution >= 1.
C38_RoundFreqNearestMultiple ==
    op.name = "roundFreq" =>
        /\ CMod(op.b, op.a[2]) = 0
        /\ 2 * Abs(op.b - op.a[1]) <= op.a[2]

-----------------------------------------------------------------------------
(* Properties: zoom *)

\* C39: once a frame has been received (m_fftDataSize > 0), the zoom level
\* m_SampleFreq / m_Span is at least 1 and at most m_fftDataSize / 4.
C39_ZoomWithinLimits ==
    p.m_fftDataSize > 0 =>
        /\ p.m_Span <= p.m_SampleFreq
        /\ 4 * p.m_SampleFreq <= p.m_fftDataSize * p.m_Span

-----------------------------------------------------------------------------
(* Properties: overlay *)

\* C40: when updateOverlay() returns with the plot visible the overlay has
\* been regenerated in the call, m_DrawOverlay being false again: after every
\* draw(false) of a visible plot, and after resizeEvent, which ends with
\* updateOverlay().
C40_UpdateOverlayRedraws ==
    /\ (op.name = "resizeEvent" /\ PlotterVisible(p)) => ~p.m_DrawOverlay
    /\ \A k \in 1 .. Len(passes) :
          (/\ ~passes[k].newData
           /\ passes[k].pre.m_DrawOverlay
           /\ PlotterVisible(passes[k].pre))
          => ~passes[k].post.m_DrawOverlay

====
